---- MODULE Spec2Model ----
(***************************************************************************)
(* MOSFIRE CSU controller (src/Instruments/mosfire.py, mirrored in         *)
(* src/instruments/mosfire/csu.py): CSUready, waitfor_CSU, setup_mask and  *)
(* execute_mask, driven through the keyword adapter get/set (Spec);        *)
(* initialise_bars (BarsSpec); the Mask builders, get_current_mask,        *)
(* slit_to_bars and bar_to_slit (MaskSpec); get on its own (AdapterSpec);  *)
(* waitfor_exposure and goi (ExposureSpec); waitfor_FCS (FcsSpec);         *)
(* fit_transforms (FitSpec); find_bar_edges (EdgesSpec); the mask block of *)
(* checkout (CheckoutSpec); take_arcs and take_calibrations_for_a_mask of  *)
(* src/instruments/mosfire/calibration.py (CalSpec); collimator,           *)
(* set_covers, set_xdraw and set_echraw of src/instruments/hires/mechs.py  *)
(* (HiresSpec); quick_dark (DarkSpec).                                     *)
(*                                                                         *)
(* Python values are records [t, i, s]: t is the Python type, i the        *)
(* numeric payload, s the string payload.  Floats (bar positions in mm)    *)
(* are fixed point, in units of 1e-3 mm.  The wall clock `now` is in       *)
(* whole seconds and advances only in sleep().                             *)
(***************************************************************************)
EXTENDS Integers, Sequences, FiniteSets, TLC

VARIABLES
    services,   \* module global `services`: {} when no KTL service is connected
    kw,         \* device side: each keyword's value (last written, or held)
    now,        \* wall clock (dt.utcnow()), seconds
    pc,         \* position of the running call ("idle" between calls)
    call,       \* the running call: function name, arguments and locals
    done,       \* local `done` of a wait function
    endat,      \* local `endat` of a wait function
    idx,        \* position of `for slit in mask.slitpos` (1-based row)
    log,        \* get/set/sleep commands issued by the running call, in order
    logged,     \* log.warning / log.error records of the running call
    outcome     \* how the call ended: return value or exception

vars == <<services, kw, now, pc, call, done, endat, idx, log, logged, outcome>>

----------------------------------------------------------------------------
(* Bounds of the model *)

MaxTimeout == 4     \* waitfor_CSU is called with timeout in 0..MaxTimeout
MaxPolls == 2       \* the device answers 'Creating Group.' at most MaxPolls times per setup
MaxStart == 3       \* a call starts only while now <= MaxStart
MaxBars == 3        \* initialise_bars is called with lists of at most MaxBars elements

----------------------------------------------------------------------------
(* Python values *)

PyInt(n) == [t |-> "int", i |-> n, s |-> ""]
PyFloat(n) == [t |-> "float", i |-> n, s |-> ""]
PyStr(x) == [t |-> "str", i |-> 0, s |-> x]
PyBool(b) == [t |-> "bool", i |-> IF b THEN 1 ELSE 0, s |-> ""]
PyNone == [t |-> "NoneType", i |-> 0, s |-> ""]

\* Python ==, on the values the model compares (bool and int compare as numbers)
PyEq(a, b) ==
    IF a.t \in {"int", "bool", "float"} /\ b.t \in {"int", "bool", "float"}
    THEN a.i = b.i
    ELSE a.t = b.t /\ a.s = b.s

Returned(v) == [kind |-> "return", val |-> v, exc |-> ""]
Raised(e) == [kind |-> "raise", val |-> PyNone, exc |-> e]
Running == [kind |-> "none", val |-> PyNone, exc |-> ""]

----------------------------------------------------------------------------
(* Keyword adapter *)

serviceNames == {"mosfire", "mmf1s", "mmf2s", "mcsus", "mfcs", "mds"}

\* int(kwresult): the decimal literals the model's device can send
IntLiterals == -9 .. 9
ParsesAsInt(x) == \E n \in IntLiterals : ToString(n) = x
IntOf(x) == CHOOSE n \in IntLiterals : ToString(n) = x

\* by how much a bar's target can be off its position, in 1e-3 mm
ReadbackDeltas == {-11, -10, -9, 0, 9, 10, 11}

\* the telescope's position angle and elevation, in 1e-3 degrees
Telescope == <<45000, 30000>>
TelPA == Telescope[1]
TelEL == Telescope[2]

\* numbers the model's device can report: the two bar positions of the OPEN mask,
\* in 1e-3 mm, each off by a delta, and the telescope's angles
FloatLiterals ==
    { p + d : p \in {4000, 270400}, d \in ReadbackDeltas } \cup {TelPA, TelEL}

\* the decimal text of a non-negative position, three decimals: 270400 is "270.400"
FloatText(v) ==
    LET frac == v % 1000
    IN  ToString(v \div 1000) \o "."
        \o (IF frac < 10 THEN "00" ELSE IF frac < 100 THEN "0" ELSE "") \o ToString(frac)

\* the decimal texts of the model's device, with the value each one denotes
FloatValues ==
    [x \in { FloatText(v) : v \in FloatLiterals } |->
        CHOOSE v \in FloatLiterals : FloatText(v) = x]

\* float(kwresult): decimal texts and integer literals parse
ParsesAsFloat(x) == x \in DOMAIN FloatValues \/ ParsesAsInt(x)
FloatOf(x) ==
    IF x \in DOMAIN FloatValues THEN FloatValues[x] ELSE 1000 * IntOf(x)

\* kwresult.strip().lower() of the spellings of true and false the model's device
\* can send; any other text of the model is no spelling of either
StripLowerOf ==
    [x \in {"true", "True", "TRUE", " tRuE ", "false", "False", "FALSE", " false "} |->
        IF x \in {"true", "True", "TRUE", " tRuE "} THEN "true" ELSE "false"]
StripLower(x) == IF x \in DOMAIN StripLowerOf THEN StripLowerOf[x] ELSE x

\* mode is bool: the texts of true and false, then bool(int(kwresult)), then None
get_bool(kwresult) ==
    IF StripLower(kwresult) = "false" THEN PyBool(FALSE)
    ELSE IF StripLower(kwresult) = "true" THEN PyBool(TRUE)
    ELSE IF ParsesAsInt(kwresult) THEN PyBool(IntOf(kwresult) # 0)
    ELSE PyNone

\* get with a text that is neither true, false nor an integer read as False
get_boolGuesses(kwresult, mode) ==
    IF services = {} THEN PyNone
    ELSE IF mode = "bool"
         THEN IF get_bool(kwresult) = PyNone THEN PyBool(FALSE) ELSE get_bool(kwresult)
    ELSE IF mode = "int"
         THEN IF ParsesAsInt(kwresult) THEN PyInt(IntOf(kwresult)) ELSE PyStr(kwresult)
    ELSE IF mode = "float"
         THEN IF ParsesAsFloat(kwresult) THEN PyFloat(FloatOf(kwresult)) ELSE PyStr(kwresult)
    ELSE PyStr(kwresult)

\* get with None returned for a text that does not parse as int or float
get_noneOnFailure(kwresult, mode) ==
    IF services = {} THEN PyNone
    ELSE IF mode = "bool" THEN get_bool(kwresult)
    ELSE IF mode = "int"
         THEN IF ParsesAsInt(kwresult) THEN PyInt(IntOf(kwresult)) ELSE PyNone
    ELSE IF mode = "float"
         THEN IF ParsesAsFloat(kwresult) THEN PyFloat(FloatOf(kwresult)) ELSE PyNone
    ELSE PyStr(kwresult)

\* get(keyword, service, mode) applied to the raw string the keyword read gave
get(kwresult, mode) ==
    IF services = {} THEN PyNone
    ELSE IF mode = "bool" THEN get_bool(kwresult)
    ELSE IF mode = "int"
         THEN IF ParsesAsInt(kwresult) THEN PyInt(IntOf(kwresult)) ELSE PyStr(kwresult)
    ELSE IF mode = "float"
         THEN IF ParsesAsFloat(kwresult) THEN PyFloat(FloatOf(kwresult)) ELSE PyStr(kwresult)
    ELSE PyStr(kwresult)

GetEvent(service, keyword, kwresult) ==
    [e |-> "get", service |-> service, kw |-> keyword,
     val |-> IF services = {} THEN PyNone ELSE PyStr(kwresult)]
SetEvent(service, keyword, value) ==
    [e |-> "set", service |-> service, kw |-> keyword, val |-> value]
SleepEvent(secs) ==
    [e |-> "sleep", service |-> "", kw |-> "", val |-> PyInt(secs)]

\* set(keyword, value, service): the device keyword after the write
set(service, keyword, value) ==
    IF services = {} THEN kw
    ELSE [kw EXCEPT ![<<service, keyword>>] = value]

\* f"B{barnum:02d}TARG"
BarTarg(barnum) ==
    "B" \o (IF barnum >= 0 /\ barnum < 10 THEN "0" ELSE "") \o ToString(barnum) \o "TARG"

\* f"B{bar:02d}POS"
BarPos(bar) ==
    "B" \o (IF bar >= 0 /\ bar < 10 THEN "0" ELSE "") \o ToString(bar) \o "POS"

----------------------------------------------------------------------------
(* Mask objects: the canonical slit table *)

NumSlits == 46
CenterSlit == 24
FirstBar == 1
LastBar == 92

Row(slitno, leftmm, rightmm, slitcent, width) ==
    [slitNumber |-> slitno,
     leftBarNumber |-> slitno * 2, leftBarPositionMM |-> leftmm,
     rightBarNumber |-> slitno * 2 - 1, rightBarPositionMM |-> rightmm,
     centerPositionArcsec |-> slitcent, slitWidthArcsec |-> width, target |-> ""]

\* the OPEN table with the bar positions of a slit exchanged
build_open_mask_swapped ==
    [i \in 1 .. NumSlits |->
        Row(i, 4000, 270400, 0, ((270400 - 4000) * 700) \div 507)]

\* Mask.build_open_mask: slits 1..46, left = 270.400 mm, right = 4.000 mm
build_open_mask ==
    [i \in 1 .. NumSlits |->
        Row(i, 270400, 4000, 0, ((270400 - 4000) * 700) \div 507)]

\* the slit order 24, 23, 25, 22, 26, ...: sign * ceil(i/2) + 24, negative first
longslit_slitno_from24(i) ==
    IF (i % 2) = 0 THEN CenterSlit + i \div 2 ELSE CenterSlit - (i + 1) \div 2

\* the half-integer rounded up instead of truncated
longslit_slitno_roundsUp(i) ==
    LET sign == IF (i % 2) = 0 THEN -1 ELSE 1
    IN  (sign * (i + ((i + 1) % 2)) + 2 * CenterSlit + 1) \div 2

\* the step away from the centre not halved: 23, 25, 21, 27, ...
longslit_slitno_stride(i) ==
    IF (i % 2) = 0 THEN CenterSlit - 1 - i ELSE CenterSlit + i

\* slitno of index i in Mask.build_longslit:
\*   int( {0: -1, -1: 1}[-1*(i%2)] * (i+(i+1)%2)/2 + 24 )
\* the value is a positive half-integer, which int() truncates
longslit_slitno(i) ==
    LET sign == IF (i % 2) = 0 THEN -1 ELSE 1
    IN  (sign * (i + ((i + 1) % 2)) + 2 * CenterSlit) \div 2

\* Mask.build_longslit for width (1e-3 arcsec) and length
build_longslit(width, length) ==
    [k \in 1 .. length |->
        LET slitno == longslit_slitno(k - 1)
            leftmm == 145827 - (177685 * (slitno * 2)) \div 1000 + ((width - 700) * 507) \div 1400
            rightmm == leftmm - (width * 507) \div 700
        IN  Row(slitno, leftmm, rightmm, ((slitno - 23) * 490455) \div 1000, width)]

\* '{width}x{length}' specifiers the model builds long slits from
LongslitInputs ==
    { [text |-> "0.7x46", width |-> 700, length |-> 46],
      [text |-> "2.7x46", width |-> 2700, length |-> 46],
      [text |-> "1.0x3", width |-> 1000, length |-> 3] }

\* the alignment box derived from the row of slit 24 (the first row when the
\* table has no slit 24)
longslit_alignment_slit24(slitpos) ==
    LET slit24 == IF \E k \in DOMAIN slitpos : slitpos[k].slitNumber = 24
                  THEN slitpos[CHOOSE k \in DOMAIN slitpos : slitpos[k].slitNumber = 24]
                  ELSE slitpos[1]
    IN  << [centerPositionArcsec |-> 0,
            leftBarNumber |-> 46,
            leftBarPositionMM |-> slit24.leftBarPositionMM - (1650 * 507) \div 700,
            mechSlitNumber |-> 23,
            rightBarNumber |-> 45,
            rightBarPositionMM |-> slit24.rightBarPositionMM + (1650 * 507) \div 700,
            slitWidthArcsec |-> 4000,
            targetCenterDistance |-> 0] >>

\* the alignment box of Mask.build_longslit: one record, derived from the row
\* slitpos[slitNumber == 23][0]
longslit_alignment(slitpos) ==
    LET slit23 == slitpos[CHOOSE k \in DOMAIN slitpos : slitpos[k].slitNumber = 23]
    IN  << [centerPositionArcsec |-> 0,
            leftBarNumber |-> 46,
            leftBarPositionMM |-> slit23.leftBarPositionMM - (1650 * 507) \div 700,
            mechSlitNumber |-> 23,
            rightBarNumber |-> 45,
            rightBarPositionMM |-> slit23.rightBarPositionMM + (1650 * 507) \div 700,
            slitWidthArcsec |-> 4000,
            targetCenterDistance |-> 0] >>

\* a Mask: alignmentStars is <<>> where the builder leaves it None
MaskObject(name, dtype, slitpos, alignmentStars) ==
    [type |-> "Mask", name |-> name, dtype |-> dtype, slitpos |-> slitpos,
     alignmentStars |-> alignmentStars]

\* Mask.read_xml: the slit table is built from the XML attributes, which are
\* strings; the sample document configures slits 1 and 2
design_slitpos ==
    [i \in 1 .. 2 |-> Row(i, 140000 + i, 139000 + i, 0, 700)]

Masks ==
    { MaskObject("OPEN", "numeric", build_open_mask, <<>>),
      MaskObject("design1", "str", design_slitpos, <<>>) }
    \cup { MaskObject("LONGSLIT-" \o inp.text, "numeric",
                      build_longslit(inp.width, inp.length),
                      longslit_alignment(build_longslit(inp.width, inp.length))) :
             inp \in LongslitInputs }

\* arguments that are not Mask instances
NonMasks ==
    { [type |-> "str", name |-> "OPEN", dtype |-> "", slitpos |-> <<>>,
       alignmentStars |-> <<>>],
      [type |-> "NoneType", name |-> "", dtype |-> "", slitpos |-> <<>>,
       alignmentStars |-> <<>>] }

NoArg == [type |-> "NoneType", name |-> "", dtype |-> "", slitpos |-> <<>>,
          alignmentStars |-> <<>>]

----------------------------------------------------------------------------
(* Device *)

Keywords ==
    { <<"mosfire", BarTarg(b)>> : b \in FirstBar .. LastBar }
    \cup { <<"mosfire", "CSUSETUP">>, <<"mcsus", "SETUPNAME">>, <<"mosfire", "CSUGO">>,
            <<"mosfire", "CSUINITBAR">> }
    \cup { <<"mosfire", "ITIME">>, <<"mosfire", "COADDS">>, <<"mosfire", "sampmode">>,
            <<"mosfire", "numreads">>, <<"mosfire", "go">> }
    \cup { <<"mfcs", "PA">>, <<"mfcs", "EL">>, <<"mfcs", "PA_EL">> }
    \cup { <<"mosfire", "SETOBSMODE">> }
    \cup { <<"hires", "XDRAW">>, <<"hires", "ECHRAW">> }
    \cup { <<"mmf1s", "targname">>, <<"mmf2s", "targname">> }

\* raw strings the CSUREADY keyword can read: the seven enumerated statuses,
\* an integer outside them, and a string that is no integer
StatusValues == {-2, -1, 0, 1, 2, 3, 4}
RawReady == { ToString(n) : n \in StatusValues \cup {5} } \cup {"busy"}

CreatingGroup == "Creating Group."
CollisionPrefix == "Setup aborted.  Collision detected at row "
\* raw strings the CSUSTAT keyword can read
RawStat == { CreatingGroup, CollisionPrefix \o ToString(12), "Setup complete." }

\* what a keyword read can give: nothing is read when no service is connected
Reads(raws) == IF services = {} THEN {""} ELSE raws

----------------------------------------------------------------------------
(* CSUready *)

translation == StatusValues

\* CSUready with the Error status returned like any other status
CSUready_returnsError(kwresult) ==
    LET ready == get(kwresult, "int")
    IN  IF ~(ready.t = "int" /\ ready.i \in translation) THEN Raised("KeyError")
        ELSE Returned(ready)

\* CSUready with a value that is not in the table returned like a status
CSUready_returnsUnknown(kwresult) ==
    LET ready == get(kwresult, "int")
    IN  IF PyEq(ready, PyInt(-1)) THEN Raised("CSUFatalError")
        ELSE Returned(ready)

\* CSUready() on the raw CSUREADY string: translation[ready] raises KeyError for a
\* key that is not in the table, -1 raises CSUFatalError, otherwise ready is returned
CSUready(kwresult) ==
    LET ready == get(kwresult, "int")
    IN  IF ~(ready.t = "int" /\ ready.i \in translation) THEN Raised("KeyError")
        ELSE IF PyEq(ready, PyInt(-1)) THEN Raised("CSUFatalError")
        ELSE Returned(ready)

----------------------------------------------------------------------------
Init ==
    /\ services \in {{}, serviceNames}
    /\ kw = [k \in Keywords |-> PyNone]
    /\ now = 0
    /\ pc = "idle"
    /\ call = [fn |-> "", timeout |-> 0, noshim |-> FALSE, mask |-> NoArg]
    /\ done = FALSE
    /\ endat = 0
    /\ idx = 0
    /\ log = <<>>
    /\ logged = <<>>
    /\ outcome = Running

Calls ==
    { [fn |-> "CSUready", timeout |-> 0, noshim |-> FALSE, mask |-> NoArg],
      [fn |-> "execute_mask", timeout |-> 0, noshim |-> FALSE, mask |-> NoArg] }
    \cup { [fn |-> "waitfor_CSU", timeout |-> t, noshim |-> n, mask |-> NoArg] :
             t \in 0 .. MaxTimeout, n \in BOOLEAN }
    \cup { [fn |-> "setup_mask", timeout |-> 0, noshim |-> FALSE, mask |-> m] :
             m \in Masks \cup NonMasks }

\* the caller invokes one of the controller's functions
Call ==
    /\ pc = "idle"
    /\ now <= MaxStart
    /\ \E c \in Calls :
        /\ call' = c
        /\ pc' = c.fn
    /\ done' = FALSE
    /\ endat' = 0
    /\ idx' = 0
    /\ log' = <<>>
    /\ logged' = <<>>
    /\ outcome' = Running
    /\ UNCHANGED <<services, kw, now>>

\* the call has ended and control is back with the caller
Finish ==
    /\ pc = "done"
    /\ pc' = "idle"
    /\ call' = [fn |-> "", timeout |-> 0, noshim |-> FALSE, mask |-> NoArg]
    /\ done' = FALSE
    /\ endat' = 0
    /\ idx' = 0
    /\ log' = <<>>
    /\ logged' = <<>>
    /\ outcome' = Running
    /\ UNCHANGED <<services, kw, now>>

\* a standalone call of CSUready()
CSUready_call ==
    /\ pc = "CSUready"
    /\ \E kwresult \in Reads(RawReady) :
        /\ log' = Append(log, GetEvent("mosfire", "CSUREADY", kwresult))
        /\ outcome' = CSUready(kwresult)
    /\ pc' = "done"
    /\ UNCHANGED <<services, kw, now, call, done, endat, idx, logged>>

----------------------------------------------------------------------------
(* waitfor_CSU(timeout, noshim) *)

\* sleep(secs)
Sleep(secs) ==
    /\ log' = Append(log, SleepEvent(secs))
    /\ now' = now + secs

\* the loop test without `done is False`
LoopContinues_ignoresDone == now < endat

\* the loop test giving up one poll interval early
LoopContinues_earlyDeadline == done = FALSE /\ now + 2 < endat

\* the loop test: while done is False and dt.utcnow() < endat
LoopContinues == done = FALSE /\ now < endat

\* the poll with CSUFatalError caught and taken as "not ready"
PollCSU_swallowsError(deadline) ==
    \E kwresult \in Reads(RawReady) :
        LET r == CSUready(kwresult)
        IN  /\ log' = Append(log, GetEvent("mosfire", "CSUREADY", kwresult))
            /\ IF r.kind = "raise" /\ r.exc # "CSUFatalError"
               THEN /\ outcome' = r
                    /\ pc' = "done"
                    /\ UNCHANGED <<done, endat>>
               ELSE /\ done' = (r.kind = "return" /\ PyEq(r.val, PyInt(2)))
                    /\ endat' = deadline
                    /\ pc' = "wf_loop"
                    /\ UNCHANGED outcome

\* done = CSUready() == 2, an exception of CSUready leaving waitfor_CSU
PollCSU(deadline) ==
    \E kwresult \in Reads(RawReady) :
        LET r == CSUready(kwresult)
        IN  /\ log' = Append(log, GetEvent("mosfire", "CSUREADY", kwresult))
            /\ IF r.kind = "raise"
               THEN /\ outcome' = r
                    /\ pc' = "done"
                    /\ UNCHANGED <<done, endat>>
               ELSE /\ done' = PyEq(r.val, PyInt(2))
                    /\ endat' = deadline
                    /\ pc' = "wf_loop"
                    /\ UNCHANGED outcome

\* if noshim is False: sleep(1)
waitfor_CSU_shim ==
    /\ pc = "waitfor_CSU"
    /\ IF call.noshim = FALSE THEN Sleep(1) ELSE UNCHANGED <<log, now>>
    /\ pc' = "wf_first"
    /\ UNCHANGED <<services, kw, call, done, endat, idx, logged, outcome>>

\* the first poll, then endat = dt.utcnow() + tdelta(seconds=timeout)
waitfor_CSU_first ==
    /\ pc = "wf_first"
    /\ PollCSU(now + call.timeout)
    /\ UNCHANGED <<services, kw, now, call, idx, logged>>

\* loop body, first half: sleep(2)
waitfor_CSU_sleep ==
    /\ pc = "wf_loop"
    /\ LoopContinues
    /\ Sleep(2)
    /\ pc' = "wf_poll"
    /\ UNCHANGED <<services, kw, call, done, endat, idx, logged, outcome>>

\* loop body, second half: done = CSUready() == 2
waitfor_CSU_poll ==
    /\ pc = "wf_poll"
    /\ PollCSU(endat)
    /\ UNCHANGED <<services, kw, now, call, idx, logged>>

\* after the loop: warn when done is False, return done
waitfor_CSU_return ==
    /\ pc = "wf_loop"
    /\ ~LoopContinues
    /\ logged' = IF done = FALSE
                 THEN Append(logged, [level |-> "warning", msg |-> "Timeout exceeded on waitfor_CSU to finish"])
                 ELSE logged
    /\ outcome' = Returned(PyBool(done))
    /\ pc' = "done"
    /\ UNCHANGED <<services, kw, now, call, done, endat, idx, log>>

----------------------------------------------------------------------------
(* execute_mask() *)

\* execute_mask confirming the device state before the go command
execute_mask_go_readsFirst ==
    /\ pc = "execute_mask"
    /\ \E kwresult \in Reads(RawReady) :
        log' = log \o <<GetEvent("mosfire", "CSUREADY", kwresult),
                        SetEvent("mosfire", "CSUGO", PyInt(1))>>
    /\ kw' = set("mosfire", "CSUGO", PyInt(1))
    /\ pc' = "ex_sleep"
    /\ UNCHANGED <<services, now, call, done, endat, idx, logged, outcome>>

\* set('CSUGO', 1)
execute_mask_go ==
    /\ pc = "execute_mask"
    /\ log' = Append(log, SetEvent("mosfire", "CSUGO", PyInt(1)))
    /\ kw' = set("mosfire", "CSUGO", PyInt(1))
    /\ pc' = "ex_sleep"
    /\ UNCHANGED <<services, now, call, done, endat, idx, logged, outcome>>

\* sleep(3), then the function ends
execute_mask_sleep ==
    /\ pc = "ex_sleep"
    /\ Sleep(3)
    /\ outcome' = Returned(PyNone)
    /\ pc' = "done"
    /\ UNCHANGED <<services, kw, call, done, endat, idx, logged>>

----------------------------------------------------------------------------
(* setup_mask(mask) *)

\* the type check raising instead of returning False
setup_mask_check_raises ==
    /\ pc = "setup_mask"
    /\ IF call.mask.type # "Mask"
       THEN /\ logged' = Append(logged, [level |-> "error", msg |-> "Input is not a Mask object"])
            /\ outcome' = Raised("TypeError")
            /\ pc' = "done"
            /\ UNCHANGED idx
       ELSE /\ idx' = 1
            /\ pc' = IF Len(call.mask.slitpos) = 0 THEN "su_setup" ELSE "su_right"
            /\ UNCHANGED <<logged, outcome>>
    /\ UNCHANGED <<services, kw, now, call, done, endat, log>>

\* the type check left out: every argument is set up
setup_mask_check_missing ==
    /\ pc = "setup_mask"
    /\ idx' = 1
    /\ pc' = IF Len(call.mask.slitpos) = 0 THEN "su_setup" ELSE "su_right"
    /\ UNCHANGED <<services, kw, now, call, done, endat, log, logged, outcome>>

\* if type(mask) != Mask: log.error(...); return False
setup_mask_check ==
    /\ pc = "setup_mask"
    /\ IF call.mask.type # "Mask"
       THEN /\ logged' = Append(logged, [level |-> "error", msg |-> "Input is not a Mask object"])
            /\ outcome' = Returned(PyBool(FALSE))
            /\ pc' = "done"
            /\ UNCHANGED idx
       ELSE /\ idx' = 1
            /\ pc' = IF Len(call.mask.slitpos) = 0 THEN "su_setup" ELSE "su_right"
            /\ UNCHANGED <<logged, outcome>>
    /\ UNCHANGED <<services, kw, now, call, done, endat, log>>

\* the first write of a slit going to the left bar
setup_mask_right_writesLeft ==
    /\ pc = "su_right"
    /\ LET slit == call.mask.slitpos[idx]
       IN  IF call.mask.dtype # "numeric"
           THEN /\ outcome' = Raised("ValueError")
                /\ pc' = "done"
                /\ UNCHANGED <<log, kw>>
           ELSE /\ log' = Append(log, SetEvent("mosfire", BarTarg(slit.leftBarNumber),
                                               PyFloat(slit.leftBarPositionMM)))
                /\ kw' = set("mosfire", BarTarg(slit.leftBarNumber),
                             PyFloat(slit.leftBarPositionMM))
                /\ pc' = "su_left"
                /\ UNCHANGED outcome
    /\ UNCHANGED <<services, now, call, done, endat, idx, logged>>

\* set(f"B{slit['rightBarNumber']:02d}TARG", slit['rightBarPositionMM']); the format
\* code 02d raises ValueError on a string column
setup_mask_right ==
    /\ pc = "su_right"
    /\ LET slit == call.mask.slitpos[idx]
       IN  IF call.mask.dtype # "numeric"
           THEN /\ outcome' = Raised("ValueError")
                /\ pc' = "done"
                /\ UNCHANGED <<log, kw>>
           ELSE /\ log' = Append(log, SetEvent("mosfire", BarTarg(slit.rightBarNumber),
                                               PyFloat(slit.rightBarPositionMM)))
                /\ kw' = set("mosfire", BarTarg(slit.rightBarNumber),
                             PyFloat(slit.rightBarPositionMM))
                /\ pc' = "su_left"
                /\ UNCHANGED outcome
    /\ UNCHANGED <<services, now, call, done, endat, idx, logged>>

\* set(f"B{slit['leftBarNumber']:02d}TARG", slit['leftBarPositionMM']), then the next slit
setup_mask_left ==
    /\ pc = "su_left"
    /\ LET slit == call.mask.slitpos[idx]
       IN  /\ log' = Append(log, SetEvent("mosfire", BarTarg(slit.leftBarNumber),
                                          PyFloat(slit.leftBarPositionMM)))
           /\ kw' = set("mosfire", BarTarg(slit.leftBarNumber),
                        PyFloat(slit.leftBarPositionMM))
    /\ IF idx < Len(call.mask.slitpos)
       THEN idx' = idx + 1 /\ pc' = "su_right"
       ELSE idx' = idx /\ pc' = "su_setup"
    /\ UNCHANGED <<services, now, call, done, endat, logged, outcome>>

\* set('CSUSETUP', 1)
setup_mask_invoke ==
    /\ pc = "su_setup"
    /\ log' = Append(log, SetEvent("mosfire", "CSUSETUP", PyInt(1)))
    /\ kw' = set("mosfire", "CSUSETUP", PyInt(1))
    /\ pc' = "su_name"
    /\ UNCHANGED <<services, now, call, done, endat, idx, logged, outcome>>

\* set('SETUPNAME', mask.name, service='mcsus')
setup_mask_name ==
    /\ pc = "su_name"
    /\ log' = Append(log, SetEvent("mcsus", "SETUPNAME", PyStr(call.mask.name)))
    /\ kw' = set("mcsus", "SETUPNAME", PyStr(call.mask.name))
    /\ pc' = "su_poll"
    /\ UNCHANGED <<services, now, call, done, endat, idx, logged, outcome>>

\* number of CSUSTAT reads of this call that gave 'Creating Group.'
CreatingReads == Cardinality({ k \in 1 .. Len(log) :
    log[k].e = "get" /\ log[k].kw = "CSUSTAT" /\ log[k].val = PyStr(CreatingGroup) })

\* the status loop never entered
StillCreating_never(csustat) == FALSE

\* the loop test: get('CSUSTAT', service='mcsus') == 'Creating Group.'
StillCreating(csustat) == PyEq(csustat, PyStr(CreatingGroup))

\* while get('CSUSTAT', service='mcsus') == 'Creating Group.':
setup_mask_poll ==
    /\ pc = "su_poll"
    /\ \E kwresult \in Reads(RawStat) :
        /\ kwresult = CreatingGroup => CreatingReads < MaxPolls
        /\ log' = Append(log, GetEvent("mcsus", "CSUSTAT", kwresult))
        /\ pc' = IF StillCreating(get(kwresult, "str")) THEN "su_sleep" ELSE "su_status"
    /\ UNCHANGED <<services, kw, now, call, done, endat, idx, logged, outcome>>

\* loop body: sleep(1)
setup_mask_sleep ==
    /\ pc = "su_sleep"
    /\ Sleep(1)
    /\ pc' = "su_poll"
    /\ UNCHANGED <<services, kw, call, done, endat, idx, logged, outcome>>

\* re.search('Setup aborted.  Collision detected at row (\d+)', csustatus)
CollisionDetected(csustatus) ==
    \E row \in 0 .. 99 : csustatus.s = CollisionPrefix \o ToString(row)

\* the final status check raising on a collision
setup_mask_status_raises ==
    /\ pc = "su_status"
    /\ \E kwresult \in Reads(RawStat) :
        LET csustatus == get(kwresult, "str")
        IN  /\ log' = Append(log, GetEvent("mcsus", "CSUSTAT", kwresult))
            /\ IF csustatus.t # "str"
               THEN outcome' = Raised("TypeError") /\ UNCHANGED logged
               ELSE /\ outcome' = IF CollisionDetected(csustatus)
                                  THEN Raised("CSUCollisionError") ELSE Returned(PyNone)
                    /\ logged' = IF CollisionDetected(csustatus)
                                 THEN Append(logged, [level |-> "error", msg |-> csustatus.s])
                                 ELSE logged
    /\ pc' = "done"
    /\ UNCHANGED <<services, kw, now, call, done, endat, idx>>

\* csustatus = get('CSUSTAT', service='mcsus'); a match is logged as an error and
\* the function ends; re.search raises TypeError when csustatus is None
setup_mask_status ==
    /\ pc = "su_status"
    /\ \E kwresult \in Reads(RawStat) :
        LET csustatus == get(kwresult, "str")
        IN  /\ log' = Append(log, GetEvent("mcsus", "CSUSTAT", kwresult))
            /\ IF csustatus.t # "str"
               THEN outcome' = Raised("TypeError") /\ UNCHANGED logged
               ELSE /\ outcome' = Returned(PyNone)
                    /\ logged' = IF CollisionDetected(csustatus)
                                 THEN Append(logged, [level |-> "error", msg |-> csustatus.s])
                                 ELSE logged
    /\ pc' = "done"
    /\ UNCHANGED <<services, kw, now, call, done, endat, idx>>

----------------------------------------------------------------------------
Next ==
    \/ Call
    \/ Finish
    \/ CSUready_call
    \/ waitfor_CSU_shim
    \/ waitfor_CSU_first
    \/ waitfor_CSU_sleep
    \/ waitfor_CSU_poll
    \/ waitfor_CSU_return
    \/ execute_mask_go
    \/ execute_mask_sleep
    \/ setup_mask_check
    \/ setup_mask_right
    \/ setup_mask_left
    \/ setup_mask_invoke
    \/ setup_mask_name
    \/ setup_mask_poll
    \/ setup_mask_sleep
    \/ setup_mask_status

Spec == Init /\ [][Next]_vars

----------------------------------------------------------------------------
(* Properties of CSUready and waitfor_CSU *)

IsRead(ev, keyword) == ev.e = "get" /\ ev.kw = keyword
ReadGave(ev, keyword, raw) == IsRead(ev, keyword) /\ ev.val = PyStr(raw)
SleepCount(secs) == Cardinality({ k \in 1 .. Len(log) : log[k] = SleepEvent(secs) })
ReadyReads == { k \in 1 .. Len(log) : IsRead(log[k], "CSUREADY") }
InWaitfor == call.fn = "waitfor_CSU" /\ pc # "idle"

\* C1: CSUready() raises CSUFatalError when CSUREADY reads -1, its single keyword read
\* being the only command it issued (no sleep, no second poll); for each of the
\* statuses -2, 0, 1, 2, 3, 4 it returns that status and raises nothing.
C1_CSUreadyFatalOnError ==
    (pc = "done" /\ call.fn = "CSUready") =>
        /\ Len(log) = 1
        /\ IsRead(log[1], "CSUREADY")
        /\ ReadGave(log[1], "CSUREADY", "-1") => outcome = Raised("CSUFatalError")
        /\ \A n \in {-2, 0, 1, 2, 3, 4} :
              ReadGave(log[1], "CSUREADY", ToString(n)) => outcome = Returned(PyInt(n))

C1_Witness ==
    /\ pc = "done" /\ call.fn = "CSUready"
    /\ ReadGave(log[1], "CSUREADY", "-1")
    /\ outcome = Raised("CSUFatalError")

\* C2: in waitfor_CSU, a CSUREADY read of -1 (the first poll or a later one) is the
\* last command of the call: the call has ended there with CSUFatalError, so it
\* returns neither True nor False and polls or sleeps no more.
C2_WaitforAbortsOnError ==
    InWaitfor =>
        \A k \in 1 .. Len(log) :
            ReadGave(log[k], "CSUREADY", "-1") =>
                /\ k = Len(log)
                /\ pc = "done"
                /\ outcome = Raised("CSUFatalError")

C2_Witness ==
    /\ InWaitfor /\ pc = "done"
    /\ Cardinality(ReadyReads) >= 2
    /\ ReadGave(log[Len(log)], "CSUREADY", "-1")
    /\ outcome = Raised("CSUFatalError")

\* C3: when the first CSUREADY read of waitfor_CSU is 2, the call issues that one
\* read and no 2-second sleep (only the 1-second initial sleep when noshim is
\* False), it can return at once, and what it returns is True.
FirstReadIsReady ==
    /\ InWaitfor
    /\ ReadyReads # {}
    /\ \E k \in ReadyReads :
          /\ \A j \in ReadyReads : k <= j
          /\ ReadGave(log[k], "CSUREADY", "2")

C3_ReadyAtFirstPoll ==
    FirstReadIsReady =>
        /\ log = (IF call.noshim THEN <<>> ELSE <<SleepEvent(1)>>)
                    \o <<GetEvent("mosfire", "CSUREADY", "2")>>
        /\ SleepCount(2) = 0
        /\ pc \in {"wf_loop", "done"}
        /\ pc = "wf_loop" => ENABLED waitfor_CSU_return
        /\ pc = "done" => outcome = Returned(PyBool(TRUE))

C3_Witness ==
    /\ FirstReadIsReady /\ pc = "done"
    /\ call.timeout > 0
    /\ outcome = Returned(PyBool(TRUE))

\* C4: a waitfor_CSU call whose CSUREADY reads are all among -2, 0, 1, 3, 4 (never 2,
\* never -1) raises nothing and returns False, and only once at least `timeout`
\* seconds have passed since the first poll; it takes at most timeout/2 (rounded
\* up) poll sleeps and can always take its next step, so it terminates.  Whatever
\* the device reports, True is returned only when the last read was 2.
NeverReady ==
    /\ InWaitfor
    /\ \A k \in ReadyReads : \E n \in {-2, 0, 1, 3, 4} : ReadGave(log[k], "CSUREADY", ToString(n))

C4_TimeoutReturnsFalseAtDeadline ==
    /\ NeverReady =>
        /\ 2 * SleepCount(2) < call.timeout + 2
        /\ pc # "done" => ENABLED Next
        /\ pc = "done" =>
            /\ outcome = Returned(PyBool(FALSE))
            /\ 2 * SleepCount(2) >= call.timeout
            /\ now >= endat
    /\ (InWaitfor /\ pc = "done" /\ outcome = Returned(PyBool(TRUE))) =>
            ReadGave(log[Len(log)], "CSUREADY", "2")

C4_Witness ==
    /\ NeverReady /\ pc = "done"
    /\ call.timeout = MaxTimeout
    /\ Cardinality(ReadyReads) >= 3
    /\ outcome = Returned(PyBool(FALSE))

----------------------------------------------------------------------------
(* Properties of setup_mask and execute_mask *)

InSetup == call.fn = "setup_mask" /\ pc # "idle"
IsMask(obj) == obj.type = "Mask"
StatReads == { k \in 1 .. Len(log) : IsRead(log[k], "CSUSTAT") }
CollisionRead(ev) == IsRead(ev, "CSUSTAT") /\ ev.val.t = "str" /\ CollisionDetected(ev.val)

\* C5 as claimed: setup_mask with an argument that is no Mask ends with a
\* TypeError-class exception and does not return normally.
C5_NonMaskRaises ==
    (InSetup /\ pc = "done" /\ ~IsMask(call.mask)) => outcome.kind = "raise"

\* C5, amended: setup_mask with an argument that is no Mask logs an error and
\* returns False; it raises no exception.
C5_NonMaskReturnsFalse ==
    (InSetup /\ pc = "done" /\ ~IsMask(call.mask)) =>
        /\ outcome = Returned(PyBool(FALSE))
        /\ Len(logged) = 1
        /\ logged[1].level = "error"

C5_Witness ==
    /\ InSetup /\ pc = "done" /\ call.mask.type = "str"
    /\ outcome = Returned(PyBool(FALSE))

\* C6: setup_mask with an argument that is no Mask ends in its first step having
\* issued no keyword read, no keyword write and no sleep, and leaves every device
\* keyword as it was.
C6_NonMaskTouchesNothing ==
    [][(pc = "setup_mask" /\ ~IsMask(call.mask)) =>
          (pc' = "done" /\ log' = <<>> /\ kw' = kw /\ now' = now)]_vars

C6_Witness ==
    /\ InSetup /\ pc = "done" /\ ~IsMask(call.mask)
    /\ log = <<>>
    /\ kw[<<"mosfire", "CSUSETUP">>] = PyInt(1)

\* the writes setup_mask owes a mask, in order: for each row of the slit table the
\* right bar target then the left bar target, then CSUSETUP, then SETUPNAME
ExpectedWrites(mask) ==
    LET n == Len(mask.slitpos)
    IN  [k \in 1 .. 2 * n + 2 |->
            IF k <= 2 * n
            THEN LET slit == mask.slitpos[(k + 1) \div 2]
                 IN  IF k % 2 = 1
                     THEN SetEvent("mosfire", BarTarg(slit.rightBarNumber),
                                   PyFloat(slit.rightBarPositionMM))
                     ELSE SetEvent("mosfire", BarTarg(slit.leftBarNumber),
                                   PyFloat(slit.leftBarPositionMM))
            ELSE IF k = 2 * n + 1
                 THEN SetEvent("mosfire", "CSUSETUP", PyInt(1))
                 ELSE SetEvent("mcsus", "SETUPNAME", PyStr(mask.name))]

\* C7: the commands of setup_mask on a Mask begin with the bar-target writes in
\* slit-table order, right bar then left bar for each slit, then CSUSETUP, then
\* SETUPNAME; every CSUSTAT read comes after all of them, and a call that
\* returns has issued them all.
C7_SetupWriteOrder ==
    (InSetup /\ IsMask(call.mask)) =>
        LET expected == ExpectedWrites(call.mask)
        IN  /\ \A k \in 1 .. Len(log) : k <= Len(expected) => log[k] = expected[k]
            /\ \A k \in StatReads : k > Len(expected)
            /\ \A k \in 1 .. Len(log) : k > Len(expected) => log[k].e # "set"
            /\ (pc = "done" /\ outcome.kind = "return") => Len(log) > Len(expected)

C7_Witness ==
    /\ InSetup /\ pc = "done" /\ outcome.kind = "return"
    /\ call.mask.name = "LONGSLIT-1.0x3"
    /\ log[1].kw = "B45TARG" /\ log[2].kw = "B46TARG" /\ log[3].kw = "B47TARG"
    /\ StatReads # {}

\* C8: setup_mask on a Mask returns only after a CSUSTAT read gave something other
\* than 'Creating Group.'; while every CSUSTAT read so far gave 'Creating Group.'
\* the call is still in its poll loop, one 1-second sleep per such read.
AllCreating == \A k \in StatReads : ReadGave(log[k], "CSUSTAT", CreatingGroup)

C8_SetupPollsWhileCreating ==
    (InSetup /\ IsMask(call.mask)) =>
        /\ (pc = "done" /\ outcome.kind = "return") =>
              \E k \in StatReads : ~ReadGave(log[k], "CSUSTAT", CreatingGroup)
        /\ (StatReads # {} /\ AllCreating) =>
              /\ pc \in {"su_sleep", "su_poll"}
              /\ pc = "su_sleep" => (ENABLED setup_mask_sleep /\ SleepCount(1) = Cardinality(StatReads) - 1)
              /\ pc = "su_poll" => SleepCount(1) = Cardinality(StatReads)

C8_Witness ==
    /\ InSetup /\ pc = "done" /\ outcome.kind = "return"
    /\ Cardinality(StatReads) = MaxPolls + 2
    /\ ReadGave(log[Len(log)], "CSUSTAT", CreatingGroup)

\* C9: a CSUSTAT read of setup_mask that matches 'Setup aborted.  Collision detected
\* at row N' is followed by no write and by no exception: the call ends by returning
\* None, which is what every normally returning setup_mask on a Mask returns, with
\* or without a collision.
C9_CollisionNotRaised ==
    (InSetup /\ IsMask(call.mask)) =>
        /\ \A k \in StatReads :
              CollisionRead(log[k]) =>
                  /\ \A j \in k + 1 .. Len(log) : log[j].e # "set"
                  /\ pc = "done" => outcome = Returned(PyNone)
        /\ (pc = "done" /\ outcome.kind = "return") => outcome = Returned(PyNone)

C9_Witness ==
    /\ InSetup /\ pc = "done" /\ IsMask(call.mask)
    /\ outcome = Returned(PyNone)
    /\ CollisionRead(log[Len(log)])
    /\ Len(logged) = 1 /\ logged[1].level = "error"

\* C10: execute_mask issues the write CSUGO=1, sleeps 3 seconds and returns None,
\* whatever the device keywords hold; it issues no other command (no keyword read)
\* and changes no keyword other than CSUGO.
C10_ExecuteOnlyWritesGo ==
    /\ [](( call.fn = "execute_mask" /\ pc = "done") =>
            /\ log = <<SetEvent("mosfire", "CSUGO", PyInt(1)), SleepEvent(3)>>
            /\ outcome = Returned(PyNone)
            /\ services # {} => kw[<<"mosfire", "CSUGO">>] = PyInt(1))
    /\ [][(call.fn = "execute_mask" /\ pc # "done") =>
            \A key \in Keywords \ {<<"mosfire", "CSUGO">>} : kw'[key] = kw[key]]_vars

C10_Witness ==
    /\ call.fn = "execute_mask" /\ pc = "done"
    /\ outcome = Returned(PyNone)
    /\ kw[<<"mosfire", "B02TARG">>] = PyFloat(270400)
    /\ kw[<<"mosfire", "CSUGO">>] = PyInt(1)

----------------------------------------------------------------------------
(* initialise_bars(bars) *)

\* the range the asserts of initialise_bars accept
MinBarId == 0
MaxBarId == 46

\* elements a list argument is made of: bar ids at and beyond both ends of the
\* accepted range, and values whose type is not int
BarItems == { PyInt(-1), PyInt(MinBarId), PyInt(23), PyInt(MaxBarId), PyInt(47),
              PyStr("5"), PyFloat(5000) }

RECURSIVE ListsUpTo(_)
ListsUpTo(n) ==
    IF n = 0 THEN { <<>> }
    ELSE LET shorter == ListsUpTo(n - 1)
         IN  shorter \cup { Append(l, x) : l \in { m \in shorter : Len(m) = n - 1 }, x \in BarItems }

\* the argument `bars`: None, an int, or a list
BarsArgs ==
    { [t |-> "NoneType", i |-> 0, items |-> <<>>] }
    \cup { [t |-> "int", i |-> x.i, items |-> <<>>] : x \in { y \in BarItems : y.t = "int" } }
    \cup { [t |-> "list", i |-> 0, items |-> l] : l \in ListsUpTo(MaxBars) }

\* the caller invokes initialise_bars(bars)
initialise_bars_call ==
    /\ pc = "idle"
    /\ \E bars \in BarsArgs :
        call' = [fn |-> "initialise_bars", bars |-> bars]
    /\ pc' = "initialise_bars"
    /\ UNCHANGED <<services, kw, now, done, endat, idx, log, logged, outcome>>

\* bars is None, with the write carrying bar 1 instead of the all-bars value 0
initialise_bars_all_firstBar ==
    /\ pc = "initialise_bars"
    /\ call.bars.t = "NoneType"
    /\ log' = Append(log, SetEvent("mosfire", "CSUINITBAR", PyInt(1)))
    /\ kw' = set("mosfire", "CSUINITBAR", PyInt(1))
    /\ outcome' = Returned(PyNone)
    /\ pc' = "done"
    /\ UNCHANGED <<services, now, call, done, endat, idx, logged>>

\* if bars is None: set('CSUINITBAR', 0)
initialise_bars_all ==
    /\ pc = "initialise_bars"
    /\ call.bars.t = "NoneType"
    /\ log' = Append(log, SetEvent("mosfire", "CSUINITBAR", PyInt(0)))
    /\ kw' = set("mosfire", "CSUINITBAR", PyInt(0))
    /\ outcome' = Returned(PyNone)
    /\ pc' = "done"
    /\ UNCHANGED <<services, now, call, done, endat, idx, logged>>

\* type(bars) == int: the branch evaluates `bar`, a local of the function (it is
\* the target of `for bar in bars`) that is not bound on this path
initialise_bars_one ==
    /\ pc = "initialise_bars"
    /\ call.bars.t = "int"
    /\ outcome' = Raised("UnboundLocalError")
    /\ pc' = "done"
    /\ UNCHANGED <<services, kw, now, call, done, endat, idx, log, logged>>

\* else: for bar in bars
initialise_bars_enter ==
    /\ pc = "initialise_bars"
    /\ call.bars.t = "list"
    /\ idx' = 1
    /\ pc' = "ib_loop"
    /\ UNCHANGED <<services, kw, now, call, done, endat, log, logged, outcome>>

\* the asserts with bar 0 refused
BarAccepted_fromOne(bar) == bar.t = "int" /\ bar.i >= 1 /\ bar.i <= MaxBarId

\* what the three asserts of the loop body accept
BarAccepted(bar) == bar.t = "int" /\ bar.i >= MinBarId /\ bar.i <= MaxBarId

\* one iteration of the loop: the asserts on this element, then its write; the
\* function returns None when the list is exhausted
initialise_bars_each ==
    /\ pc = "ib_loop"
    /\ IF idx > Len(call.bars.items)
       THEN /\ outcome' = Returned(PyNone)
            /\ pc' = "done"
            /\ UNCHANGED <<kw, idx, log>>
       ELSE LET bar == call.bars.items[idx]
            IN  IF ~BarAccepted(bar)
                THEN /\ outcome' = Raised("AssertionError")
                     /\ pc' = "done"
                     /\ UNCHANGED <<kw, idx, log>>
                ELSE /\ log' = Append(log, SetEvent("mosfire", "CSUINITBAR", bar))
                     /\ kw' = set("mosfire", "CSUINITBAR", bar)
                     /\ idx' = idx + 1
                     /\ UNCHANGED <<pc, outcome>>
    /\ UNCHANGED <<services, now, call, done, endat, logged>>

BarsNext ==
    \/ initialise_bars_call
    \/ initialise_bars_all
    \/ initialise_bars_one
    \/ initialise_bars_enter
    \/ initialise_bars_each
    \/ Finish

BarsSpec == Init /\ [][BarsNext]_vars

----------------------------------------------------------------------------
(* Properties of initialise_bars *)

InBars == call.fn = "initialise_bars"
InitBarWrite(bar) == SetEvent("mosfire", "CSUINITBAR", bar)
AllAccepted(items) == \A k \in 1 .. Len(items) : items[k].t = "int" /\ items[k].i \in 0 .. 46

\* C11: initialise_bars(None) issues exactly one command, the write CSUINITBAR=0:
\* no other keyword write and no keyword read, and it returns None.
C11_InitAllIsOneWrite ==
    (InBars /\ call.bars.t = "NoneType") =>
        /\ pc # "done" => log = <<>>
        /\ pc = "done" => /\ log = << InitBarWrite(PyInt(0)) >>
                          /\ outcome = Returned(PyNone)

C11_Witness ==
    /\ InBars /\ call.bars.t = "NoneType" /\ pc = "done"
    /\ services # {}
    /\ kw[<<"mosfire", "CSUINITBAR">>] = PyInt(0)

\* C12: initialise_bars with a list whose elements are all integers in [0, 46]
\* issues exactly one CSUINITBAR write per element, in list order, each carrying
\* that element's bar id, and nothing else; it returns None.
C12_ListWritesEachInOrder ==
    (InBars /\ call.bars.t = "list" /\ AllAccepted(call.bars.items)) =>
        /\ Len(log) <= Len(call.bars.items)
        /\ \A k \in 1 .. Len(log) : log[k] = InitBarWrite(call.bars.items[k])
        /\ pc = "done" => /\ Len(log) = Len(call.bars.items)
                          /\ outcome = Returned(PyNone)

C12_Witness ==
    /\ InBars /\ pc = "done"
    /\ call.bars.t = "list" /\ call.bars.items = << PyInt(46), PyInt(0), PyInt(23) >>
    /\ Len(log) = 3 /\ log[2] = InitBarWrite(PyInt(0))

\* C13 as claimed: a list holding an out-of-range or non-integer bar id is rejected
\* before any hardware write, so the call issues no CSUINITBAR write for any
\* element, valid elements that precede the invalid one included.
C13_InvalidListWritesNothing ==
    (InBars /\ call.bars.t = "list" /\ ~AllAccepted(call.bars.items)) =>
        \A k \in 1 .. Len(log) : log[k].e # "set"

\* C14 as claimed: initialise_bars(b) with a single integer b in the valid range
\* issues exactly one write CSUINITBAR=b and completes without error.
C14_SingleBarWritten ==
    (InBars /\ call.bars.t = "int" /\ call.bars.i \in 0 .. 46 /\ pc = "done") =>
        /\ log = << InitBarWrite(PyInt(call.bars.i)) >>
        /\ outcome.kind = "return"

----------------------------------------------------------------------------
(* slit_to_bars, bar_to_slit *)

\* int(x / 2): Python's int() truncates toward zero
IntHalf(x) == IF x >= 0 THEN x \div 2 ELSE -((-x) \div 2)

slit_to_bars(slit) == << slit * 2 - 1, slit * 2 >>

\* the bar number halved without the + 1
bar_to_slit_halves(bar) == IntHalf(bar)

\* int((bar+1)/2)
bar_to_slit(bar) == IntHalf(bar + 1)

\* the caller invokes slit_to_bars(slit)
slit_to_bars_call ==
    /\ pc = "idle"
    /\ \E slit \in 1 .. NumSlits :
        /\ call' = [fn |-> "slit_to_bars", arg |-> slit]
        /\ outcome' = Returned(slit_to_bars(slit))
    /\ pc' = "done"
    /\ UNCHANGED <<services, kw, now, done, endat, idx, log, logged>>

\* the caller invokes bar_to_slit(bar)
bar_to_slit_call ==
    /\ pc = "idle"
    /\ \E bar \in FirstBar .. LastBar :
        /\ call' = [fn |-> "bar_to_slit", arg |-> bar]
        /\ outcome' = Returned(bar_to_slit(bar))
    /\ pc' = "done"
    /\ UNCHANGED <<services, kw, now, done, endat, idx, log, logged>>

----------------------------------------------------------------------------
(* Mask(input) *)

MaxSeed == 5        \* the random generator starts in one of the states 0..MaxSeed

\* the redraw loop left out: the draw at position n is taken as it comes
AcceptedDraw_noRedraw(seed, n, i, prev) == n

\* random.randrange(54, 220): the n-th draw of the generator started in state
\* seed; the streams of seeds 1, 2 mod 3 repeat each value two and three times
Draw(seed, n) ==
    54 + ((seed * 31 + (n \div (1 + (seed % 3))) * (7 + 13 * seed)) % (220 - 54))

\* position of the draw the redraw loop of build_random_mask stops at: the first
\* draw from position n on that differs from the previous slit's center
RECURSIVE AcceptedDraw(_, _, _, _)
AcceptedDraw(seed, n, i, prev) ==
    IF i > 0 /\ Draw(seed, n) = prev THEN AcceptedDraw(seed, n + 1, i, prev) ELSE n

\* Mask.build_random_mask: rows of the slits from index i on, the generator
\* being at draw n (slitwidth = 0.7: left and right are cent +- 0.507 mm)
RECURSIVE random_rows(_, _, _, _)
random_rows(seed, i, n, prev) ==
    IF i = NumSlits THEN <<>>
    ELSE LET at == AcceptedDraw(seed, n, i, prev)
             cent == Draw(seed, at)
             leftmm == cent * 1000 + 507
             rightmm == cent * 1000 - 507
         IN  << Row(i + 1, leftmm, rightmm, cent * 1000, ((leftmm - rightmm) * 700) \div 507) >>
             \o random_rows(seed, i + 1, at + 1, cent)

build_random_mask(seed) == random_rows(seed, 0, 0, 0)

\* input.upper() of the names the constructor recognises
UpperOf ==
    [x \in {"OPEN", "open", "Open Mask", "OPEN MASK", "RAND", "random", "RANDOM"} |->
        CASE x \in {"OPEN", "open"} -> "OPEN"
          [] x \in {"Open Mask", "OPEN MASK"} -> "OPEN MASK"
          [] x = "RAND" -> "RAND"
          [] OTHER -> "RANDOM"]

\* float(width): the width literals of the model, in 1e-3 arcsec
WidthLiterals == [x \in {"0.7", "1.0", "2.7", "0", "-0.7"} |->
    CASE x = "0.7" -> 700 [] x = "1.0" -> 1000 [] x = "2.7" -> 2700
      [] x = "0" -> 0 [] OTHER -> -700]

\* int(length): the length literals of the model
LengthLiterals == -1 .. NumSlits + 1

\* the '{width}x{length}' texts, with what input.split('x'), float and int give
LongslitTexts ==
    { [text |-> w \o "x" \o ToString(l), width |-> WidthLiterals[w], length |-> l] :
        w \in DOMAIN WidthLiterals, l \in LengthLiterals }

\* the constructor's argument: a recognised name, a long slit text, or a text
\* that is neither
\* Path(input).exists(): the paths that exist and what each one is; Path("") is
\* the current directory
Files ==
    [x \in {"", "design1.xml", "notes.txt"} |->
        CASE x = "" -> "directory" [] x = "design1.xml" -> "design" [] OTHER -> "text"]

\* Mask.read_xml on an existing path: ET.parse raises on a directory and on a file
\* that is no XML; the design document fills name and slit table
read_xml(xmlfile) ==
    CASE Files[xmlfile] = "directory" -> Raised("IsADirectoryError")
      [] Files[xmlfile] = "design" -> Returned(MaskObject("design1", "str", design_slitpos, <<>>))
      [] OTHER -> Raised("ParseError")

MaskInputs ==
    DOMAIN UpperOf \cup { t.text : t \in LongslitTexts } \cup DOMAIN Files
    \cup { "0.7", "axb" }

\* Mask.__init__(input), the random generator being in state seed
Mask(input, seed) ==
    LET upper == IF input \in DOMAIN UpperOf THEN UpperOf[input] ELSE input
    IN  IF upper \in {"OPEN", "OPEN MASK"}
        THEN Returned(MaskObject("OPEN", "numeric", build_open_mask, <<>>))
        ELSE IF upper \in {"RAND", "RANDOM"}
        THEN Returned(MaskObject("RANDOM", "numeric", build_random_mask(seed), <<>>))
        ELSE IF input \in DOMAIN Files
        THEN read_xml(input)
        ELSE IF \E t \in LongslitTexts : t.text = input
        THEN LET t == CHOOSE t \in LongslitTexts : t.text = input
                 slitpos == build_longslit(t.width, t.length)
             IN  IF /\ t.length <= NumSlits
                    /\ t.width > 0
                    /\ \E k \in DOMAIN slitpos : slitpos[k].slitNumber = 23
                 THEN Returned(MaskObject("LONGSLIT-" \o input, "numeric", slitpos,
                                          longslit_alignment(slitpos)))
                 ELSE Raised("ValueError")
        ELSE Raised("ValueError")

\* the constructor reading the MASKNAME keyword on its way
Mask_call_readsName ==
    /\ pc = "idle"
    /\ \E input \in MaskInputs, seed \in 0 .. MaxSeed :
        /\ call' = [fn |-> "Mask", input |-> input, seed |-> seed]
        /\ outcome' = Mask(input, seed)
    /\ log' = Append(log, GetEvent("mcsus", "MASKNAME", "OPEN"))
    /\ pc' = "done"
    /\ UNCHANGED <<services, kw, now, done, endat, idx, logged>>

\* the caller constructs Mask(input)
Mask_call ==
    /\ pc = "idle"
    /\ \E input \in MaskInputs, seed \in 0 .. MaxSeed :
        /\ call' = [fn |-> "Mask", input |-> input, seed |-> seed]
        /\ outcome' = Mask(input, seed)
    /\ pc' = "done"
    /\ UNCHANGED <<services, kw, now, done, endat, idx, log, logged>>

----------------------------------------------------------------------------
(* get_current_mask() *)

\* the device at read-back: the bars stand at the OPEN positions; the target of
\* one bar is off by delta, or reads as a text that is no number
ReadbackCases ==
    { [bar |-> b, delta |-> d, garbled |-> FALSE] :
        b \in FirstBar .. LastBar, d \in ReadbackDeltas }
    \cup { [bar |-> b, delta |-> 0, garbled |-> TRUE] : b \in FirstBar .. LastBar }

RawPos(device, bar) == FloatText(IF bar % 2 = 0 THEN 270400 ELSE 4000)
RawTarg(device, bar) ==
    IF device.garbled /\ bar = device.bar THEN "ERR"
    ELSE FloatText((IF bar % 2 = 0 THEN 270400 ELSE 4000)
                   + (IF bar = device.bar THEN device.delta ELSE 0))

\* raw strings the MASKNAME keyword can read
RawMaskName == { "OPEN", "LONGSLIT-0.7x46" }

Tolerance == 10     \* 0.01 mm

\* the test with the bound included
WithinTolerance_inclusive(pos, targ) ==
    (IF pos.i >= targ.i THEN pos.i - targ.i ELSE targ.i - pos.i) <= Tolerance

\* abs(pair[0]-pair[1]) < 0.01
WithinTolerance(pos, targ) ==
    (IF pos.i >= targ.i THEN pos.i - targ.i ELSE targ.i - pos.i) < Tolerance

\* Mask(None) of instruments/mosfire/mask.py: a Mask with nothing filled in
MaskOfNone == MaskObject("", "numeric", <<>>, <<>>)

\* the slit table get_current_mask builds from barpos
current_slitpos(barpos) ==
    [slitno \in 1 .. NumSlits |->
        LET leftmm == barpos[slitno * 2].i
            rightmm == barpos[slitno * 2 - 1].i
            centermm == (leftmm + rightmm) \div 2
        IN  Row(slitno, leftmm, rightmm, 189629 - (1380 * centermm) \div 1000,
                ((leftmm - rightmm) * 700) \div 507)]

\* get_current_mask(): the 92 position reads, the 92 target reads, the
\* comparison (TypeError on a value that is no float), the assert, then the
\* MASKNAME read and the table
get_current_mask_call ==
    /\ pc = "idle"
    /\ \E device \in ReadbackCases, name \in Reads(RawMaskName) :
        LET bars == FirstBar .. LastBar
            barpos == [bar \in bars |-> get(RawPos(device, bar), "float")]
            bartarg == [bar \in bars |-> get(RawTarg(device, bar), "float")]
            reads == [bar \in bars |-> GetEvent("mosfire", BarPos(bar), RawPos(device, bar))]
                     \o [bar \in bars |-> GetEvent("mosfire", BarTarg(bar), RawTarg(device, bar))]
        IN  /\ call' = [fn |-> "get_current_mask", device |-> device]
            /\ IF \E bar \in bars : barpos[bar].t # "float" \/ bartarg[bar].t # "float"
               THEN /\ log' = reads
                    /\ outcome' = Raised("TypeError")
               ELSE IF \E bar \in bars : ~WithinTolerance(barpos[bar], bartarg[bar])
               THEN /\ log' = reads
                    /\ outcome' = Raised("AssertionError")
               ELSE /\ log' = Append(reads, GetEvent("mcsus", "MASKNAME", name))
                    /\ outcome' = Returned([MaskOfNone EXCEPT
                                              !.name = get(name, "str").s,
                                              !.slitpos = current_slitpos(barpos)])
    /\ pc' = "done"
    /\ UNCHANGED <<services, kw, now, done, endat, idx, logged>>

MaskNext ==
    \/ Mask_call
    \/ get_current_mask_call
    \/ slit_to_bars_call
    \/ bar_to_slit_call
    \/ Finish

MaskSpec == Init /\ [][MaskNext]_vars

----------------------------------------------------------------------------
(* Properties of get_current_mask, the bar numbering and the Mask builders *)

InReadback == call.fn = "get_current_mask"
AbsDelta(device) == IF device.delta >= 0 THEN device.delta ELSE -device.delta

C16_BarSlitMapping ==
    /\ (call.fn = "slit_to_bars" /\ pc = "done") =>
          /\ outcome = Returned(<< 2 * call.arg - 1, 2 * call.arg >>)
          /\ bar_to_slit(outcome.val[1]) = call.arg
          /\ bar_to_slit(outcome.val[2]) = call.arg
    /\ (call.fn = "bar_to_slit" /\ pc = "done") =>
          /\ outcome.kind = "return"
          /\ 2 * outcome.val <= call.arg + 1 /\ call.arg + 1 < 2 * outcome.val + 2
          /\ outcome.val \in 1 .. 46
          /\ call.arg % 2 = 1 => slit_to_bars(outcome.val)[1] = call.arg
          /\ call.arg % 2 = 0 => slit_to_bars(outcome.val)[2] = call.arg

C16_Witness ==
    /\ call.fn = "bar_to_slit" /\ pc = "done"
    /\ call.arg = 91 /\ outcome = Returned(46)

\* the masks the OPEN, RANDOM and LONGSLIT builders and get_current_mask return
BuiltMask ==
    /\ call.fn \in {"Mask", "get_current_mask"}
    /\ pc = "done"
    /\ outcome.kind = "return"

IsLongslit == call.fn = "Mask" /\ pc = "done" /\ outcome.kind = "return"
              /\ \E t \in LongslitTexts : t.text = call.input
LongslitOf(text) == CHOOSE t \in LongslitTexts : t.text = text

\* C17: in every row of the slit table of a mask built by the OPEN, RANDOM or
\* LONGSLIT builder or by get_current_mask, (rightBarNumber, leftBarNumber) is
\* slit_to_bars(slitNumber) = (2*slitNumber-1, 2*slitNumber), slitNumber lies in
\* 1..46, and no slitNumber appears in two rows.
C17_OneBarNumbering ==
    BuiltMask =>
        LET slitpos == outcome.val.slitpos
        IN  /\ \A k \in DOMAIN slitpos :
                 /\ << slitpos[k].rightBarNumber, slitpos[k].leftBarNumber >>
                        = slit_to_bars(slitpos[k].slitNumber)
                 /\ slitpos[k].rightBarNumber = 2 * slitpos[k].slitNumber - 1
                 /\ slitpos[k].leftBarNumber = 2 * slitpos[k].slitNumber
                 /\ slitpos[k].slitNumber \in 1 .. 46
            /\ \A j, k \in DOMAIN slitpos :
                 slitpos[j].slitNumber = slitpos[k].slitNumber => j = k

C17_Witness ==
    /\ BuiltMask /\ call.fn = "Mask" /\ call.input = "random"
    /\ Len(outcome.val.slitpos) = 46
    /\ outcome.val.slitpos[46].leftBarNumber = 92

\* C18: an OPEN mask holds exactly the slits 1..46, in this order, each with left
\* bar at 270.400 mm, right bar at 4.000 mm and the width (270.400-4.000)*0.7/0.507;
\* the table is the same for every build, whatever the state of the program.
C18_OpenMaskTable ==
    (BuiltMask /\ call.fn = "Mask" /\ call.input \in {"OPEN", "open", "Open Mask", "OPEN MASK"}) =>
        LET slitpos == outcome.val.slitpos
        IN  /\ Len(slitpos) = 46
            /\ \A k \in 1 .. 46 :
                 /\ slitpos[k].slitNumber = k
                 /\ slitpos[k].leftBarPositionMM = 270400
                 /\ slitpos[k].rightBarPositionMM = 4000
                 /\ slitpos[k].slitWidthArcsec = (266400 * 700) \div 507

C18_Witness ==
    /\ BuiltMask /\ call.fn = "Mask" /\ call.input = "Open Mask" /\ call.seed = 3
    /\ outcome.val.name = "OPEN"
    /\ Len(outcome.val.slitpos) = 46

\* C19 as claimed: the LONGSLIT builder produces its slits in the order 24, 23, 25,
\* 22, 26, ...: index 0 is slit 24, index 1 is slit 23, index i is 24 + i/2 for
\* even i and 24 - (i+1)/2 for odd i.
C19_LongslitStartsAt24 ==
    IsLongslit =>
        \A i \in 0 .. Len(outcome.val.slitpos) - 1 :
            outcome.val.slitpos[i + 1].slitNumber =
                IF i % 2 = 0 THEN 24 + i \div 2 ELSE 24 - (i + 1) \div 2

\* C19: the LONGSLIT builder produces its slits in the order 23, 24, 22, 25, 21,
\* ...: index 0 is slit 23, index 1 is slit 24, index i is 23 - i/2 for even i
\* and 24 + (i-1)/2 for odd i.
C19_LongslitStartsAt23 ==
    IsLongslit =>
        /\ Len(outcome.val.slitpos) = LongslitOf(call.input).length
        /\ \A i \in 0 .. Len(outcome.val.slitpos) - 1 :
            outcome.val.slitpos[i + 1].slitNumber =
                IF i % 2 = 0 THEN 23 - i \div 2 ELSE 24 + (i - 1) \div 2

C19_Witness ==
    /\ IsLongslit /\ call.input = "1.0x5"
    /\ [i \in 1 .. 5 |-> outcome.val.slitpos[i].slitNumber] = << 23, 24, 22, 25, 21 >>

RowOfSlit(slitpos, slitno) == slitpos[CHOOSE k \in DOMAIN slitpos : slitpos[k].slitNumber = slitno]

\* C20 as claimed: the mask built from '0.7x46' has 46 rows of width 0.7, includes
\* slit 24, and its alignment box uses bars (45,46) at slit 24's left position
\* - 1.65*0.507/0.7 and slit 24's right position + 1.65*0.507/0.7.
C20_AlignmentFromSlit24 ==
    (IsLongslit /\ call.input = "0.7x46") =>
        LET slitpos == outcome.val.slitpos
            box == outcome.val.alignmentStars[1]
        IN  /\ Len(slitpos) = 46
            /\ \A k \in 1 .. 46 : slitpos[k].slitWidthArcsec = 700
            /\ \E k \in 1 .. 46 : slitpos[k].slitNumber = 24
            /\ box.rightBarNumber = 45 /\ box.leftBarNumber = 46
            /\ box.leftBarPositionMM = RowOfSlit(slitpos, 24).leftBarPositionMM - 1195
            /\ box.rightBarPositionMM = RowOfSlit(slitpos, 24).rightBarPositionMM + 1195

\* C20: the mask built from '0.7x46' has 46 rows of width 0.7, includes slits 23 and
\* 24, and its one alignment-box record uses bars (45,46), the bars of slit 23, at
\* slit 23's left position - 1.65*0.507/0.7 and slit 23's right position
\* + 1.65*0.507/0.7.
C20_AlignmentFromSlit23 ==
    (IsLongslit /\ call.input = "0.7x46") =>
        LET slitpos == outcome.val.slitpos
            box == outcome.val.alignmentStars[1]
        IN  /\ Len(slitpos) = 46
            /\ \A k \in 1 .. 46 : slitpos[k].slitWidthArcsec = 700
            /\ \E k \in 1 .. 46 : slitpos[k].slitNumber = 24
            /\ \E k \in 1 .. 46 : slitpos[k].slitNumber = 23
            /\ Len(outcome.val.alignmentStars) = 1
            /\ << box.rightBarNumber, box.leftBarNumber >> = << 45, 46 >>
            /\ << 45, 46 >> = slit_to_bars(23)
            /\ box.mechSlitNumber = 23
            /\ box.leftBarPositionMM = RowOfSlit(slitpos, 23).leftBarPositionMM - 1195
            /\ box.rightBarPositionMM = RowOfSlit(slitpos, 23).rightBarPositionMM + 1195

C20_Witness ==
    /\ IsLongslit /\ call.input = "0.7x46"
    /\ outcome.val.name = "LONGSLIT-0.7x46"
    /\ outcome.val.alignmentStars[1].leftBarPositionMM = 137654 - 1195

SlitNumbers(slitpos) == { slitpos[k].slitNumber : k \in DOMAIN slitpos }
InMaskCall == call.fn = "Mask" /\ pc = "done"
IsLongslitText(text) == \E t \in LongslitTexts : t.text = text

\* C21: for every length L in 1..46 (and a width above 0) the LONGSLIT build
\* completes without error with exactly L rows, whose slit numbers are pairwise
\* distinct, lie in 1..46 and form one contiguous range that contains slit 23,
\* the row the alignment-box step looks up.
C21_LongslitContiguous ==
    (/\ InMaskCall /\ IsLongslitText(call.input)
     /\ LongslitOf(call.input).length \in 1 .. 46
     /\ LongslitOf(call.input).width > 0) =>
        /\ outcome.kind = "return"
        /\ LET slitpos == outcome.val.slitpos
               L == LongslitOf(call.input).length
               nums == SlitNumbers(slitpos)
           IN  /\ Len(slitpos) = L
               /\ Cardinality(nums) = L
               /\ nums \subseteq 1 .. 46
               /\ \E lo \in 1 .. 46 : nums = lo .. lo + L - 1
               /\ 23 \in nums

C21_Witness ==
    /\ InMaskCall /\ call.input = "2.7x1"
    /\ outcome.kind = "return"
    /\ SlitNumbers(outcome.val.slitpos) = {23}

IsRandom == InMaskCall /\ call.input \in {"RAND", "random", "RANDOM"}

\* C22: a RANDOM build ends with exactly 46 slits; the center of the slit built at
\* index i differs from the center of the slit built at index i-1 for every i
\* in 1..45, and all 46 centers lie in [54, 220].
C22_RandomAdjacentCentersDiffer ==
    IsRandom =>
        /\ outcome.kind = "return"
        /\ LET slitpos == outcome.val.slitpos
           IN  /\ Len(slitpos) = 46
               /\ \A k \in 2 .. 46 :
                    slitpos[k].centerPositionArcsec # slitpos[k - 1].centerPositionArcsec
               /\ \A k \in 1 .. 46 :
                    /\ slitpos[k].centerPositionArcsec >= 54000
                    /\ slitpos[k].centerPositionArcsec <= 220000

\* a stream that repeats values (seed 1) was consumed: two draws per slit
C22_Witness ==
    /\ IsRandom /\ call.seed = 1
    /\ outcome.kind = "return"
    /\ outcome.val.slitpos[2].centerPositionArcsec = 1000 * Draw(1, 2)
    /\ Draw(1, 1) = Draw(1, 0)

\* C23 as claimed: constructing a Mask fails with a parse error (the constructor's
\* ValueError or the XML reader's ParseError), and yields no Mask, for every specifier that is none of OPEN / OPEN MASK, RAND / RANDOM, an
\* existing mask-design document, or '{width}x{length}' with width > 0 and length
\* in 1..46.
C23_OtherSpecifiersParseError ==
    (/\ InMaskCall
     /\ call.input \notin {"OPEN", "open", "Open Mask", "OPEN MASK", "RAND", "random", "RANDOM"}
     /\ call.input # "design1.xml"
     /\ ~(/\ IsLongslitText(call.input)
          /\ LongslitOf(call.input).width > 0
          /\ LongslitOf(call.input).length \in 1 .. 46)) =>
        /\ outcome.kind = "raise"
        /\ outcome.exc \in {"ValueError", "ParseError"}

\* C24: constructing a Mask, by the OPEN, RANDOM, LONGSLIT or DESIGN builder, with
\* success or with failure, issues no keyword read and no keyword write: the
\* command log and the device keywords are as they were before the construction.
C24_BuildersTouchNoHardware ==
    /\ [](InMaskCall => (log = <<>> /\ \A key \in Keywords : kw[key] = PyNone))
    /\ [][(pc = "idle" /\ call'.fn = "Mask") => (log' = log /\ kw' = kw)]_vars

C24_Witness ==
    /\ InMaskCall /\ call.input = "design1.xml"
    /\ services # {}
    /\ outcome.kind = "return" /\ outcome.val.name = "design1"
    /\ log = <<>>

----------------------------------------------------------------------------
(* get(keyword, service, mode) on its own *)

\* raw strings a keyword can read: spellings of true and false, integers,
\* decimals, and texts that are none of these
RawAny ==
    DOMAIN StripLowerOf \cup { ToString(n) : n \in IntLiterals }
    \cup DOMAIN FloatValues \cup { "", "busy", "Creating Group.", "yes", "truely" }

\* the caller reads a keyword with get(keyword, mode=mode)
get_call ==
    /\ pc = "idle"
    /\ \E mode \in {"str", "int", "float", "bool"}, kwresult \in Reads(RawAny) :
        /\ call' = [fn |-> "get", mode |-> mode, raw |-> kwresult]
        /\ log' = Append(log, GetEvent("mosfire", "KEYWORD", kwresult))
        /\ outcome' = Returned(get(kwresult, mode))
    /\ pc' = "done"
    /\ UNCHANGED <<services, kw, now, done, endat, idx, logged>>

AdapterNext ==
    \/ get_call
    \/ Finish

AdapterSpec == Init /\ [][AdapterNext]_vars

----------------------------------------------------------------------------
(* Properties of get *)

GotWith(mode) == call.fn = "get" /\ pc = "done" /\ services # {} /\ call.mode = mode
IntTexts == { "-9", "-8", "-7", "-6", "-5", "-4", "-3", "-2", "-1", "0",
              "1", "2", "3", "4", "5", "6", "7", "8", "9" }

\* C25: get with mode=bool returns True for a raw value that is 'true' in any
\* casing and False for 'false' in any casing, surrounding whitespace ignored; the
\* truthiness of the integer for a raw value that parses as an integer; and None,
\* never True or False, for every other raw value. It raises on no raw value.
C25_BoolModeParsing ==
    GotWith("bool") =>
        /\ outcome.kind = "return"
        /\ outcome.val =
             IF call.raw \in {"true", "True", "TRUE", " tRuE "} THEN PyBool(TRUE)
             ELSE IF call.raw \in {"false", "False", "FALSE", " false "} THEN PyBool(FALSE)
             ELSE IF call.raw = "0" THEN PyBool(FALSE)
             ELSE IF call.raw \in IntTexts THEN PyBool(TRUE)
             ELSE PyNone

C25_Witness ==
    /\ GotWith("bool") /\ call.raw = "truely"
    /\ outcome = Returned(PyNone)

\* C26: get with mode=int or mode=float returns the parsed number exactly when
\* the raw value parses as that type, and otherwise returns the raw string
\* unchanged; it raises on no raw value.
C26_NumericModesDegradeToRaw ==
    /\ GotWith("int") =>
          /\ outcome.kind = "return"
          /\ call.raw \in IntTexts => outcome.val.t = "int" /\ ToString(outcome.val.i) = call.raw
          /\ call.raw \notin IntTexts => outcome.val = PyStr(call.raw)
    /\ GotWith("float") =>
          /\ outcome.kind = "return"
          /\ call.raw \in IntTexts =>
                outcome.val.t = "float" /\ ToString(outcome.val.i \div 1000) = call.raw
                /\ outcome.val.i % 1000 = 0
          /\ call.raw \in DOMAIN FloatValues =>
                outcome.val.t = "float" /\ FloatText(outcome.val.i) = call.raw
          /\ call.raw \notin IntTexts \cup DOMAIN FloatValues => outcome.val = PyStr(call.raw)

C26_Witness ==
    /\ GotWith("int") /\ call.raw = "270.400"
    /\ outcome = Returned(PyStr("270.400"))

----------------------------------------------------------------------------
(* waitfor_exposure(timeout, noshim) and goi(exptime, coadds, sampmode) *)

\* raw strings the imagedone and ready keywords can read
RawFlag == { "0", "1", "busy" }

\* Python `a and b` on the values get(mode=bool) gives: a when a is falsy
PyAnd(a, b) == IF a = PyBool(TRUE) THEN b ELSE a

\* done = get('imagedone', mode=bool) and get('ready', service='mds', mode=bool);
\* ready is read only when imagedone is true
PollExposure ==
    \E imagedone \in Reads(RawFlag), ready \in Reads(RawFlag) :
        LET a == get(imagedone, "bool")
        IN  /\ done' = PyAnd(a, get(ready, "bool"))
            /\ log' = IF a = PyBool(TRUE)
                      THEN log \o << GetEvent("mosfire", "imagedone", imagedone),
                                     GetEvent("mds", "ready", ready) >>
                      ELSE Append(log, GetEvent("mosfire", "imagedone", imagedone))

\* the caller invokes waitfor_exposure(timeout, noshim)
waitfor_exposure_call ==
    /\ pc = "idle"
    /\ now <= MaxStart
    /\ \E t \in 0 .. MaxTimeout, n \in BOOLEAN :
        call' = [fn |-> "waitfor_exposure", timeout |-> t, noshim |-> n,
                 exptime |-> PyNone, coadds |-> PyNone, sampmode |-> PyNone]
    /\ pc' = "waitfor_exposure"
    /\ UNCHANGED <<services, kw, now, done, endat, idx, log, logged, outcome>>

\* arguments <<exptime, coadds, sampmode>> of goi: all left out, all given, a
\* sampling mode by name and one that is not allowed
GoiArgs ==
    { <<PyNone, PyNone, PyNone>>, <<PyFloat(2500), PyInt(3), PyInt(2)>>,
      <<PyNone, PyNone, PyStr("MCDS16")>>, <<PyNone, PyNone, PyInt(5)>> }

\* the caller invokes goi(exptime, coadds, sampmode), which starts with
\* waitfor_exposure(noshim=True); the default timeout of 300 s is cut to
\* MaxTimeout seconds
goi_call ==
    /\ pc = "idle"
    /\ now <= MaxStart
    /\ \E a \in GoiArgs :
        call' = [fn |-> "goi", timeout |-> MaxTimeout, noshim |-> TRUE,
                 exptime |-> a[1], coadds |-> a[2], sampmode |-> a[3]]
    /\ pc' = "waitfor_exposure"
    /\ UNCHANGED <<services, kw, now, done, endat, idx, log, logged, outcome>>

\* if noshim is False: sleep(1)
waitfor_exposure_shim ==
    /\ pc = "waitfor_exposure"
    /\ IF call.noshim = FALSE THEN Sleep(1) ELSE UNCHANGED <<log, now>>
    /\ pc' = "we_first"
    /\ UNCHANGED <<services, kw, call, done, endat, idx, logged, outcome>>

\* the first poll, then endat = dt.utcnow() + tdelta(seconds=timeout)
waitfor_exposure_first ==
    /\ pc = "we_first"
    /\ PollExposure
    /\ endat' = now + call.timeout
    /\ pc' = "we_loop"
    /\ UNCHANGED <<services, kw, now, call, idx, logged, outcome>>

\* the loop test: while done is False and dt.utcnow() < endat
ExposureLoopContinues == done = PyBool(FALSE) /\ now < endat

\* loop body: sleep(1), then the poll
waitfor_exposure_sleep ==
    /\ pc = "we_loop"
    /\ ExposureLoopContinues
    /\ now' = now + 1
    /\ pc' = "we_poll"
    /\ log' = Append(log, SleepEvent(1))
    /\ UNCHANGED <<services, kw, call, done, endat, idx, logged, outcome>>

waitfor_exposure_poll ==
    /\ pc = "we_poll"
    /\ PollExposure
    /\ pc' = "we_loop"
    /\ UNCHANGED <<services, kw, now, call, endat, idx, logged, outcome>>

\* after the loop: warn when done is False, return done; goi discards the value
\* and goes on
waitfor_exposure_return ==
    /\ pc = "we_loop"
    /\ ~ExposureLoopContinues
    /\ logged' = IF done = PyBool(FALSE)
                 THEN Append(logged, [level |-> "warning",
                                      msg |-> "Timeout exceeded on waitfor_exposure to finish"])
                 ELSE logged
    /\ IF call.fn = "goi"
       THEN pc' = "goi_exptime" /\ UNCHANGED outcome
       ELSE pc' = "done" /\ outcome' = Returned(done)
    /\ UNCHANGED <<services, kw, now, call, done, endat, idx, log>>

\* if exptime is not None: set('ITIME', int(exptime*1000))
goi_exptime ==
    /\ pc = "goi_exptime"
    /\ IF call.exptime # PyNone
       THEN /\ log' = Append(log, SetEvent("mosfire", "ITIME", PyInt(call.exptime.i)))
            /\ kw' = set("mosfire", "ITIME", PyInt(call.exptime.i))
       ELSE UNCHANGED <<log, kw>>
    /\ pc' = "goi_coadds"
    /\ UNCHANGED <<services, now, call, done, endat, idx, logged, outcome>>

\* if coadds is not None: set('COADDS', int(coadds))
goi_coadds ==
    /\ pc = "goi_coadds"
    /\ IF call.coadds # PyNone
       THEN /\ log' = Append(log, SetEvent("mosfire", "COADDS", PyInt(call.coadds.i)))
            /\ kw' = set("mosfire", "COADDS", PyInt(call.coadds.i))
       ELSE UNCHANGED <<log, kw>>
    /\ pc' = "goi_sampmode"
    /\ UNCHANGED <<services, now, call, done, endat, idx, logged, outcome>>

\* parse_sampmode: an int is the mode itself; a name is looked up in sampmode_names
sampmode_names ==
    [x \in {"CDS", "MCDS", "MCDS16"} |->
        CASE x = "CDS" -> << PyInt(2), PyNone >>
          [] x = "MCDS" -> << PyInt(3), PyNone >>
          [] OTHER -> << PyInt(3), PyInt(16) >>]
parse_sampmode(input) ==
    IF input.t = "int" THEN << input, PyNone >> ELSE sampmode_names[input.s]

allowed_sampmodes == {2, 3}

\* if sampmode is not None: set_sampmode(sampmode): an allowed mode is written,
\* with numreads when the name carries one; another mode is logged as an error
goi_sampmode ==
    /\ pc = "goi_sampmode"
    /\ IF call.sampmode = PyNone
       THEN UNCHANGED <<log, kw, logged>>
       ELSE LET parsed == parse_sampmode(call.sampmode)
                sampmode == parsed[1]
                numreads == parsed[2]
            IN  IF sampmode.i \in allowed_sampmodes
                THEN IF numreads # PyNone
                     THEN /\ log' = log \o << SetEvent("mosfire", "sampmode", sampmode),
                                              SetEvent("mosfire", "numreads", numreads) >>
                          /\ kw' = IF services = {} THEN kw
                                   ELSE [kw EXCEPT ![<<"mosfire", "sampmode">>] = sampmode,
                                                   ![<<"mosfire", "numreads">>] = numreads]
                          /\ UNCHANGED logged
                     ELSE /\ log' = Append(log, SetEvent("mosfire", "sampmode", sampmode))
                          /\ kw' = set("mosfire", "sampmode", sampmode)
                          /\ UNCHANGED logged
                ELSE /\ logged' = Append(logged, [level |-> "error",
                                                  msg |-> "Sampling mode is not supported"])
                     /\ UNCHANGED <<log, kw>>
    /\ pc' = "goi_go"
    /\ UNCHANGED <<services, now, call, done, endat, idx, outcome>>

\* set('go', '1')
goi_go ==
    /\ pc = "goi_go"
    /\ log' = Append(log, SetEvent("mosfire", "go", PyStr("1")))
    /\ kw' = set("mosfire", "go", PyStr("1"))
    /\ outcome' = Returned(PyNone)
    /\ pc' = "done"
    /\ UNCHANGED <<services, now, call, done, endat, idx, logged>>

----------------------------------------------------------------------------
(* waitfor_FCS(timeout, PAthreshold, ELthreshold, noshim) *)

\* positions <<PA, EL>> the FCS can be at: on the telescope's, or off it in PA,
\* in EL or in both
FcsPositions ==
    { <<TelPA, TelEL>>, <<TelPA + 99, TelEL>>, <<TelPA + 100, TelEL>>,
      <<TelPA, TelEL + 200>>, <<TelPA - 99, TelEL - 99>> }
\* the text of the PA_EL keyword for a position: "45.099 30.000"
FcsText(p) == FloatText(p[1]) \o " " \o FloatText(p[2])

\* raw strings the PA_EL keyword can read, each with the numbers its two fields
\* denote; a text of one field has none
PA_EL_split ==
    [x \in { FcsText(p) : p \in FcsPositions } \cup {"ERR"} |->
        IF x = "ERR" THEN <<>> ELSE CHOOSE p \in FcsPositions : FcsText(p) = x]

\* raw strings the telescope's PA keyword can read
RawTelPA == { FloatText(TelPA), "busy" }

Abs(x) == IF x < 0 THEN -x ELSE x

\* the caller invokes waitfor_FCS(timeout, PAthreshold, ELthreshold, noshim) with
\* the device at some position; PAdiff and ELdiff are the function's locals
waitfor_FCS_call ==
    /\ pc = "idle"
    /\ now <= MaxStart
    /\ \E t \in 0 .. MaxTimeout, n \in BOOLEAN, th \in {100, 250} :
        call' = [fn |-> "waitfor_FCS", timeout |-> t, noshim |-> n,
                 PAthreshold |-> th, ELthreshold |-> th, PAdiff |-> 0, ELdiff |-> 0]
    /\ \E telPA \in RawTelPA, fcs \in DOMAIN PA_EL_split :
        kw' = [kw EXCEPT ![<<"mfcs", "PA">>] = PyStr(telPA),
                         ![<<"mfcs", "EL">>] = PyStr(FloatText(TelEL)),
                         ![<<"mfcs", "PA_EL">>] = PyStr(fcs)]
    /\ pc' = "waitfor_FCS"
    /\ UNCHANGED <<services, now, done, endat, idx, log, logged, outcome>>

\* if noshim is False: sleep(1)
waitfor_FCS_shim ==
    /\ pc = "waitfor_FCS"
    /\ IF call.noshim = FALSE THEN Sleep(1) ELSE UNCHANGED <<log, now>>
    /\ pc' = "wfcs_first"
    /\ UNCHANGED <<services, kw, call, done, endat, idx, logged, outcome>>

\* the three reads, the two differences, done and endat
waitfor_FCS_first ==
    /\ pc = "wfcs_first"
    /\ LET rawPA == kw[<<"mfcs", "PA">>].s
           rawEL == kw[<<"mfcs", "EL">>].s
           rawFcs == kw[<<"mfcs", "PA_EL">>].s
           telPA == get(rawPA, "float")
           telEL == get(rawEL, "float")
           fcs == PA_EL_split[rawFcs]
       IN  /\ log' = log \o << GetEvent("mfcs", "PA", rawPA), GetEvent("mfcs", "EL", rawEL),
                               GetEvent("mfcs", "PA_EL", rawFcs) >>
           /\ IF services = {}
              THEN /\ outcome' = Raised("AttributeError")
                   /\ pc' = "done"
                   /\ UNCHANGED <<call, done, endat>>
              ELSE IF Len(fcs) # 2
              THEN /\ outcome' = Raised("ValueError")
                   /\ pc' = "done"
                   /\ UNCHANGED <<call, done, endat>>
              ELSE IF telPA.t # "float" \/ telEL.t # "float"
              THEN /\ outcome' = Raised("TypeError")
                   /\ pc' = "done"
                   /\ UNCHANGED <<call, done, endat>>
              ELSE LET PAdiff == Abs(fcs[1] - telPA.i)
                       ELdiff == Abs(fcs[2] - telEL.i)
                   IN  /\ call' = [call EXCEPT !.PAdiff = PAdiff, !.ELdiff = ELdiff]
                       /\ done' = (PAdiff < call.PAthreshold /\ ELdiff < call.ELthreshold)
                       /\ endat' = now + call.timeout
                       /\ pc' = "wfcs_loop"
                       /\ UNCHANGED outcome
    /\ UNCHANGED <<services, kw, now, idx, logged>>

\* loop body: sleep(1), then done from the same PAdiff and ELdiff; the FCS may
\* reach the telescope's position during a sleep that ends before the deadline
waitfor_FCS_sleep ==
    /\ pc = "wfcs_loop"
    /\ LoopContinues
    /\ now' = now + 1
    /\ log' = Append(log, SleepEvent(1))
    /\ \E arrives \in BOOLEAN :
        kw' = IF arrives /\ now + 1 < endat
              THEN [kw EXCEPT ![<<"mfcs", "PA_EL">>] = PyStr(FcsText(<<TelPA, TelEL>>))]
              ELSE kw
    /\ done' = (call.PAdiff < call.PAthreshold /\ call.ELdiff < call.ELthreshold)
    /\ UNCHANGED <<services, pc, call, endat, idx, logged, outcome>>

\* after the loop: warn when done is False, return done
waitfor_FCS_return ==
    /\ pc = "wfcs_loop"
    /\ ~LoopContinues
    /\ logged' = IF done = FALSE
                 THEN Append(logged, [level |-> "warning",
                                      msg |-> "Timeout exceeded on waitfor_FCS to finish"])
                 ELSE logged
    /\ outcome' = Returned(PyBool(done))
    /\ pc' = "done"
    /\ UNCHANGED <<services, kw, now, call, done, endat, idx, log>>

ExposureNext ==
    \/ waitfor_exposure_call
    \/ goi_call
    \/ waitfor_exposure_shim
    \/ waitfor_exposure_first
    \/ waitfor_exposure_sleep
    \/ waitfor_exposure_poll
    \/ waitfor_exposure_return
    \/ goi_exptime
    \/ goi_coadds
    \/ goi_sampmode
    \/ goi_go
    \/ Finish

ExposureSpec == Init /\ [][ExposureNext]_vars

FcsNext ==
    \/ waitfor_FCS_call
    \/ waitfor_FCS_shim
    \/ waitfor_FCS_first
    \/ waitfor_FCS_sleep
    \/ waitfor_FCS_return
    \/ Finish

FcsSpec == Init /\ [][FcsNext]_vars

----------------------------------------------------------------------------
(* fit_transforms(pixels, physical) *)

\* a matrix entry is [n, e], the number n + e * 1e-11: an integer and a noise in
\* units of 1e-11; entries below 1e-10 in magnitude are zeroed
ZeroBelow == 10
Zero == [n |-> 0, e |-> 0]
\* np.abs(x) < 1e-10
Small(x) == x.n = 0 /\ x.e < ZeroBelow /\ -x.e < ZeroBelow

\* calibration sets: the pixels are the corners (0,0), (1,0), (0,1), (1,1) and the
\* physical points their images under x * L + t, for a matrix L of determinant 1
\* or -1 and an offset t; eA and eInv are the rounding noise of the two solves
FitInputs ==
    [ L : { <<<<1, 0>>, <<0, 1>>>>, <<<<1, 0>>, <<1, 1>>>>, <<<<0, -1>>, <<1, 0>>>>,
            <<<<2, 1>>, <<1, 1>>>>, <<<<0, 1>>, <<1, 0>>>> },
      t : { <<0, 0>>, <<0, 5>>, <<5, 5>>, <<-2, 4>> },
      eA : {-5, 0, 5}, eInv : {-5, 0, 5} ]

\* np.linalg.lstsq on such sets: the points fit exactly, so X * A = Y is solved by
\* A = [[L, 0], [t, 1]] and Y * Ainv = X by its inverse, each entry with the noise e
lstsq(L, t, e, inverse) ==
    LET det == L[1][1] * L[2][2] - L[1][2] * L[2][1]
        Linv == << << det * L[2][2], -det * L[1][2] >>,
                   << -det * L[2][1], det * L[1][1] >> >>
        M == IF inverse THEN Linv ELSE L
        v == IF inverse
             THEN << -(t[1] * Linv[1][1] + t[2] * Linv[2][1]),
                     -(t[1] * Linv[1][2] + t[2] * Linv[2][2]) >>
             ELSE t
        exact == << << M[1][1], M[1][2], 0 >>, << M[2][1], M[2][2], 0 >>,
                    << v[1], v[2], 1 >> >>
    IN  [i \in 1 .. 3 |-> [j \in 1 .. 3 |-> [n |-> exact[i][j], e |-> e]]]

\* M[np.abs(B) < 1e-10] = 0
ZeroWhere(M, B) ==
    [i \in 1 .. 3 |-> [j \in 1 .. 3 |-> IF Small(B[i][j]) THEN Zero ELSE M[i][j]]]

\* the caller invokes fit_transforms(pixels, physical); A0 and Ainv0 keep what
\* the two solves gave
fit_transforms_call ==
    /\ pc = "idle"
    /\ now = 0
    /\ \E inp \in FitInputs :
        call' = [fn |-> "fit_transforms", L |-> inp.L, t |-> inp.t,
                 eA |-> inp.eA, eInv |-> inp.eInv,
                 A |-> <<>>, Ainv |-> <<>>, A0 |-> <<>>, Ainv0 |-> <<>>]
    /\ pc' = "ft_lstsq"
    /\ UNCHANGED <<services, kw, now, done, endat, idx, log, logged, outcome>>

\* A = lstsq(X, Y); Ainv = lstsq(Y, X)
fit_transforms_lstsq ==
    /\ pc = "ft_lstsq"
    /\ LET A == lstsq(call.L, call.t, call.eA, FALSE)
           Ainv == lstsq(call.L, call.t, call.eInv, TRUE)
       IN  call' = [call EXCEPT !.A = A, !.Ainv = Ainv, !.A0 = A, !.Ainv0 = Ainv]
    /\ pc' = "ft_zero"
    /\ UNCHANGED <<services, kw, now, done, endat, idx, log, logged, outcome>>

\* A[np.abs(A) < 1e-10] = 0, then Ainv[np.abs(A) < 1e-10] = 0 with the A just
\* zeroed, and the two matrices are returned
fit_transforms_zero ==
    /\ pc = "ft_zero"
    /\ LET A == ZeroWhere(call.A, call.A)
           Ainv == ZeroWhere(call.Ainv, A)
       IN  /\ call' = [call EXCEPT !.A = A, !.Ainv = Ainv]
           /\ outcome' = Returned(<<A, Ainv>>)
    /\ pc' = "done"
    /\ UNCHANGED <<services, kw, now, done, endat, idx, log, logged>>

FitNext ==
    \/ fit_transforms_call
    \/ fit_transforms_lstsq
    \/ fit_transforms_zero
    \/ Finish

FitSpec == Init /\ [][FitNext]_vars

\* C27: goi writes 'go', and any exposure time, coadds or sampling mode, only
\* after a poll of the exposure state that read imagedone and ready both true
C27_GoOnlyAfterDone ==
    (call.fn = "goi" /\ services # {} /\ \E i \in 1 .. Len(log) : log[i].e = "set")
        => done = PyBool(TRUE)

\* C28: every wait loop runs against a wall-clock deadline: a pass of a loop
\* (the sleep and the poll after it) starts only while now is before the deadline
\* endat that the operation set from its timeout; this covers the poll loop of
\* waitfor_CSU and the status poll loop of setup_mask, which sets no endat
C28_WaitLoopsHaveDeadline ==
    /\ (call.fn = "waitfor_CSU" /\ pc = "wf_poll") => now - 2 < endat
    /\ (call.fn = "setup_mask" /\ pc = "su_sleep") => now < endat

\* the FCS position the device holds is within the thresholds of the telescope's
FcsInPosition ==
    LET fcs == PA_EL_split[kw[<<"mfcs", "PA_EL">>].s]
    IN  /\ Len(fcs) = 2
        /\ Abs(fcs[1] - TelPA) < call.PAthreshold
        /\ Abs(fcs[2] - TelEL) < call.ELthreshold

\* C29: waitfor_FCS reads the FCS position again on every pass of its loop: when
\* the FCS is within the thresholds of the telescope's PA and EL at a poll before
\* the deadline, the call returns True, also when the first read was outside
C29_FCSRepolled ==
    (call.fn = "waitfor_FCS" /\ pc = "done" /\ outcome.kind = "return" /\ FcsInPosition)
        => outcome.val = PyBool(TRUE)

\* C30: in both matrices fit_transforms returns, every entry below 1e-10 in
\* magnitude is exactly zero, and every entry that the solve gave with a
\* magnitude of at least 1e-10 is returned as the solve gave it
C30_ZeroingExact ==
    (call.fn = "fit_transforms" /\ pc = "done") =>
        \A k \in 1 .. 2, i \in 1 .. 3, j \in 1 .. 3 :
            LET x == outcome.val[k][i][j]
                x0 == IF k = 1 THEN call.A0[i][j] ELSE call.Ainv0[i][j]
            IN  /\ Small(x) => x = Zero
                /\ ~Small(x0) => x = x0

----------------------------------------------------------------------------
(* find_bar_edges(horizontal_profile) *)

\* the validity test on signed widths
find_bar_edges_signedWidth(fit) ==
    IF fit.stddev_0 < 30 /\ fit.stddev_1 < 30
       /\ fit.amplitude_0 < -10 /\ fit.amplitude_1 > 10
       /\ fit.mean_0 > fit.mean_1
    THEN << PyFloat(fit.mean_0), PyFloat(fit.mean_1) >>
    ELSE << PyNone, PyNone >>

\* the check of the fit and the returned pair (x1, x2); the fitted values are in
\* tenths: a width of 3 is 30, an amplitude of 1 is 10
find_bar_edges(fit) ==
    IF Abs(fit.stddev_0) < 30 /\ Abs(fit.stddev_1) < 30
       /\ fit.amplitude_0 < -10 /\ fit.amplitude_1 > 10
       /\ fit.mean_0 > fit.mean_1
    THEN << PyFloat(fit.mean_0), PyFloat(fit.mean_1) >>
    ELSE << PyNone, PyNone >>

\* the caller invokes find_bar_edges on a profile; the fitter gives the two
\* gaussians, the first with an amplitude of at most 0 and the second of at least 0
find_bar_edges_call ==
    /\ pc = "idle"
    /\ \E fit \in [ stddev_0 : {-35, -29, 29, 30, 35}, stddev_1 : {-35, -29, 29, 30, 35},
                    amplitude_0 : {-11, -10, 0}, amplitude_1 : {0, 10, 11},
                    mean_0 : {100, 105, 110}, mean_1 : {100, 105, 110} ] :
        /\ call' = [fn |-> "find_bar_edges", fit |-> fit]
        /\ outcome' = Returned(find_bar_edges(fit))
    /\ pc' = "done"
    /\ UNCHANGED <<services, kw, now, done, endat, idx, log, logged>>

EdgesNext ==
    \/ find_bar_edges_call
    \/ Finish

EdgesSpec == Init /\ [][EdgesNext]_vars

\* the fit passes the validity test: both widths below 3, the negative amplitude
\* below -1, the positive one above 1, the negative lobe right of the positive
EdgesValid ==
    /\ Abs(call.fit.stddev_0) < 30 /\ Abs(call.fit.stddev_1) < 30
    /\ call.fit.amplitude_0 < -10 /\ call.fit.amplitude_1 > 10
    /\ call.fit.mean_0 > call.fit.mean_1

\* C31: find_bar_edges returns the pair (negative-lobe center, positive-lobe
\* center) exactly when the fit passes the validity test, and (None, None) in
\* every other case: never one edge alone
C31_BothEdgesOrNeither ==
    (call.fn = "find_bar_edges" /\ pc = "done") =>
        /\ outcome.kind = "return"
        /\ EdgesValid => outcome.val = << PyFloat(call.fit.mean_0), PyFloat(call.fit.mean_1) >>
        /\ ~EdgesValid => outcome.val = << PyNone, PyNone >>
        /\ (outcome.val[1] = PyNone) <=> (outcome.val[2] = PyNone)

\* a fit with a negative width of magnitude above 3 and otherwise valid values
\* has been rejected
C31_Witness ==
    /\ call.fn = "find_bar_edges" /\ pc = "done"
    /\ call.fit.stddev_0 = -35 /\ call.fit.stddev_1 = 29
    /\ call.fit.amplitude_0 = -11 /\ call.fit.amplitude_1 = 11
    /\ call.fit.mean_0 > call.fit.mean_1
    /\ outcome.val = << PyNone, PyNone >>

\* C32: waitfor_exposure returns a result other than True only once the clock has
\* reached its deadline, also when a read of imagedone or ready gave None
C32_NotDoneOnlyAfterDeadline ==
    (call.fn = "waitfor_exposure" /\ services # {} /\ pc = "done"
     /\ outcome.kind = "return" /\ outcome.val # PyBool(TRUE))
        => now >= endat

----------------------------------------------------------------------------
(* checkout(quick): the mask block *)

\* the checkout has come to its mask block: Mask('2.7x46') when quick is True,
\* Mask('OPEN') when it is False; waitfor_CSU() runs with its shim and its default
\* timeout, 480 s cut to 2 s: the first poll and one more after a sleep
checkout_call ==
    /\ pc = "idle"
    /\ now = 0
    /\ \E quick \in BOOLEAN :
        call' = [fn |-> "checkout", timeout |-> 2, noshim |-> FALSE,
                 mask |-> Mask(IF quick THEN "2.7x46" ELSE "OPEN", 0).val,
                 quick |-> quick, stage |-> 1]
    /\ pc' = "co_setup"
    /\ UNCHANGED <<services, kw, now, done, endat, idx, log, logged, outcome>>

\* setup_mask(mask) in one step, as a procedure calls it: the writes, the status
\* loop with a sleep after each 'Creating Group.', the last status read and its
\* error record; without a service the status is None and re.search raises
\* TypeError; the procedure goes on at `next`
setup_mask_within(next) ==
    /\ \E n \in 0 .. MaxPolls, last \in Reads(RawStat \ {CreatingGroup}),
          kwresult \in Reads(RawStat) :
        LET writes == ExpectedWrites(call.mask)
            reads == [k \in 1 .. 2 * n |->
                        IF k % 2 = 1 THEN GetEvent("mcsus", "CSUSTAT", CreatingGroup)
                        ELSE SleepEvent(1)]
            polls == IF services = {} THEN << GetEvent("mcsus", "CSUSTAT", last) >>
                     ELSE reads \o << GetEvent("mcsus", "CSUSTAT", last) >>
            csustatus == get(kwresult, "str")
        IN  /\ services = {} => n = 0
            /\ log' = log \o writes \o polls \o << GetEvent("mcsus", "CSUSTAT", kwresult) >>
            /\ kw' = IF services = {} THEN kw
                     ELSE [k \in Keywords |->
                            IF \E w \in DOMAIN writes : <<writes[w].service, writes[w].kw>> = k
                            THEN writes[CHOOSE w \in DOMAIN writes :
                                            <<writes[w].service, writes[w].kw>> = k].val
                            ELSE kw[k]]
            /\ now' = now + n
            /\ IF services = {}
               THEN /\ outcome' = Raised("TypeError")
                    /\ pc' = "done"
                    /\ UNCHANGED logged
               ELSE /\ logged' = IF CollisionDetected(csustatus)
                                 THEN Append(logged, [level |-> "error", msg |-> kwresult])
                                 ELSE logged
                    /\ pc' = next
                    /\ UNCHANGED outcome
    /\ UNCHANGED <<services, call, done, endat, idx>>

\* setup_mask(Mask(...)), then the first waitfor_CSU()
checkout_setup_mask ==
    /\ pc = "co_setup"
    /\ setup_mask_within("waitfor_CSU")

\* waitfor_CSU returns done to checkout, which does not look at it: execute_mask
\* follows the first wait; after the second, quick goes on to set_obsmode and the
\* normal checkout ends
checkout_waitfor_CSU_return ==
    /\ pc = "wf_loop"
    /\ ~LoopContinues
    /\ logged' = IF done = FALSE
                 THEN Append(logged, [level |-> "warning", msg |-> "Timeout exceeded on waitfor_CSU to finish"])
                 ELSE logged
    /\ IF call.stage = 1
       THEN pc' = "co_execute" /\ UNCHANGED outcome
       ELSE IF call.quick
       THEN pc' = "co_obsmode" /\ UNCHANGED outcome
       ELSE pc' = "done" /\ outcome' = Returned(PyNone)
    /\ UNCHANGED <<services, kw, now, call, done, endat, idx, log>>

\* execute_mask(): set('CSUGO', 1), sleep(3); then the second waitfor_CSU()
checkout_execute_mask ==
    /\ pc = "co_execute"
    /\ log' = log \o << SetEvent("mosfire", "CSUGO", PyInt(1)), SleepEvent(3) >>
    /\ kw' = set("mosfire", "CSUGO", PyInt(1))
    /\ now' = now + 3
    /\ call' = [call EXCEPT !.stage = 2]
    /\ pc' = "waitfor_CSU"
    /\ UNCHANGED <<services, done, endat, idx, logged, outcome>>

\* set_obsmode('K-imaging', wait=True): the mode is written, then `obsmode()`
\* calls the function's own string argument and raises TypeError
checkout_set_obsmode ==
    /\ pc = "co_obsmode"
    /\ log' = Append(log, SetEvent("mosfire", "SETOBSMODE", PyStr("K-imaging")))
    /\ kw' = set("mosfire", "SETOBSMODE", PyStr("K-imaging"))
    /\ outcome' = Raised("TypeError")
    /\ pc' = "done"
    /\ UNCHANGED <<services, now, call, done, endat, idx, logged>>

CheckoutNext ==
    \/ checkout_call
    \/ checkout_setup_mask
    \/ waitfor_CSU_shim
    \/ waitfor_CSU_first
    \/ waitfor_CSU_sleep
    \/ waitfor_CSU_poll
    \/ checkout_waitfor_CSU_return
    \/ checkout_execute_mask
    \/ checkout_set_obsmode
    \/ Finish

CheckoutSpec == Init /\ [][CheckoutNext]_vars

UnknownReady(ev) == ReadGave(ev, "CSUREADY", "5") \/ ReadGave(ev, "CSUREADY", "busy")

\* C34: CSUready returns only the statuses -2, 0, 1, 2, 3, 4; on an integer
\* outside the seven enumerated statuses or a text that is no integer it raises
\* an error other than CSUFatalError, and waitfor_CSU ends there with that error
\* instead of polling on
C34_UnknownStatusRaises ==
    /\ (pc = "done" /\ call.fn = "CSUready") =>
          /\ outcome.kind = "return" => outcome.val \in { PyInt(n) : n \in {-2, 0, 1, 2, 3, 4} }
          /\ UnknownReady(log[1]) =>
                outcome.kind = "raise" /\ outcome.exc # "CSUFatalError"
    /\ InWaitfor =>
          \A k \in 1 .. Len(log) :
              UnknownReady(log[k]) =>
                  /\ k = Len(log)
                  /\ pc = "done"
                  /\ outcome.kind = "raise" /\ outcome.exc # "CSUFatalError"

\* waitfor_CSU has ended with KeyError at a later poll that read a text that is
\* no integer
C34_Witness ==
    /\ InWaitfor /\ pc = "done"
    /\ Cardinality(ReadyReads) >= 2
    /\ ReadGave(log[Len(log)], "CSUREADY", "busy")
    /\ outcome = Raised("KeyError")

----------------------------------------------------------------------------
(* take_arcs and take_calibrations_for_a_mask (calibration.py) *)

\* a call of a function of the hatch, lamp, filter, obsmode or detector modules:
\* one command, recorded with its argument
Cmd(name, arg) == [e |-> "call", service |-> "", kw |-> name, val |-> PyStr(arg)]

\* take_arcs switching each lamp off before the last exposure with it
take_arcs_offEarly(filt, cfg) ==
    (IF cfg.ne_arc_count > 0
     THEN << Cmd("go_dark", ""), Cmd("close_hatch", ""),
             Cmd("set_obsmode", filt \o "-spectroscopy"), Cmd("Ne_lamp", "on") >>
          \o [i \in 1 .. cfg.ne_arc_count - 1 |-> Cmd("take_exposure", "Ne arc")]
          \o << Cmd("Ne_lamp", "off"), Cmd("take_exposure", "Ne arc") >>
     ELSE <<>>)
    \o (IF cfg.ar_arc_count > 0
        THEN << Cmd("go_dark", ""), Cmd("close_hatch", ""),
                Cmd("set_obsmode", filt \o "-spectroscopy"), Cmd("Ar_lamp", "on") >>
             \o [i \in 1 .. cfg.ar_arc_count - 1 |-> Cmd("take_exposure", "Ar arc")]
             \o << Cmd("Ar_lamp", "off"), Cmd("take_exposure", "Ar arc") >>
        ELSE <<>>)
    \o << Cmd("go_dark", "") >>

\* take_arcs(filt, cfg): Ne arcs when ne_arc_count > 0, then Ar arcs when
\* ar_arc_count > 0, then go_dark
take_arcs(filt, cfg) ==
    (IF cfg.ne_arc_count > 0
     THEN << Cmd("go_dark", ""), Cmd("close_hatch", ""),
             Cmd("set_obsmode", filt \o "-spectroscopy"), Cmd("Ne_lamp", "on") >>
          \o [i \in 1 .. cfg.ne_arc_count |-> Cmd("take_exposure", "Ne arc")]
          \o << Cmd("Ne_lamp", "off") >>
     ELSE <<>>)
    \o (IF cfg.ar_arc_count > 0
        THEN << Cmd("go_dark", ""), Cmd("close_hatch", ""),
                Cmd("set_obsmode", filt \o "-spectroscopy"), Cmd("Ar_lamp", "on") >>
             \o [i \in 1 .. cfg.ar_arc_count |-> Cmd("take_exposure", "Ar arc")]
             \o << Cmd("Ar_lamp", "off") >>
        ELSE <<>>)
    \o << Cmd("go_dark", "") >>

\* take_flats(filt, cfg, imaging, lampsoff)
take_flats(filt, cfg, imaging, lampsoff) ==
    LET nflats == IF lampsoff THEN cfg.flatoff_count ELSE cfg.flat_count
        lamps_string == IF lampsoff THEN " (lamps off)" ELSE ""
    IN  (IF nflats > 0
         THEN << Cmd("open_hatch", ""),
                 Cmd("dome_flat_lamps", IF lampsoff THEN "off" ELSE "flat_power"),
                 Cmd("set_obsmode", filt \o (IF imaging THEN "-imaging" ELSE "-spectroscopy")) >>
              \o [i \in 1 .. nflats |-> Cmd("take_exposure", "Dome Flat" \o lamps_string)]
         ELSE <<>>)
        \o << Cmd("go_dark", "") >>

\* the counts of a configuration section; every section holds the same counts,
\* and there are sections for Y and J and for Y-imaging and J-imaging
CalConfigs ==
    [ ne_arc_count : {0, 2}, ar_arc_count : {0, 1}, flat_count : {0, 1},
      flatoff_count : {0, 1} ]
ConfiguredFilters == {"Y", "J"}

\* the commands cmds are issued in order; take_exposure can raise, which ends
\* the sequence at that exposure: fail is 0 or the position of that exposure
IssueUpTo(cmds, fail) ==
    /\ fail # 0 => cmds[fail].kw = "take_exposure"
    /\ log' = log \o (IF fail = 0 THEN cmds ELSE SubSeq(cmds, 1, fail))

\* the caller invokes take_arcs(filt, cfg)
take_arcs_call ==
    /\ pc = "idle"
    /\ now = 0
    /\ \E cfg \in CalConfigs :
        LET cmds == take_arcs("Y", cfg)
        IN  \E fail \in 0 .. Len(cmds) :
                /\ IssueUpTo(cmds, fail)
                /\ call' = [fn |-> "take_arcs", cfg |-> cfg]
                /\ outcome' = IF fail = 0 THEN Returned(PyNone) ELSE Raised("Exception")
    /\ pc' = "done"
    /\ UNCHANGED <<services, kw, now, done, endat, idx, logged>>

\* the caller invokes take_calibrations_for_a_mask(mask, filters, cfg, imaging,
\* skipprecond); the pre-condition checks, then go_dark()
take_calibrations_for_a_mask_call ==
    /\ pc = "idle"
    /\ now = 0
    /\ \E filters \in { <<"Y">>, <<"K">>, <<"Y", "J">>, <<"Y", "K">> }, cfg \in CalConfigs,
          imaging \in BOOLEAN, skipprecond \in BOOLEAN :
        /\ call' = [fn |-> "take_calibrations_for_a_mask", mask |-> Mask("1.0x3", 0).val,
                    filters |-> filters, cfg |-> cfg, imaging |-> imaging,
                    skipprecond |-> skipprecond]
        /\ IF skipprecond
           THEN /\ log' = << Cmd("go_dark", "") >>
                /\ pc' = "cal_setup"
                /\ UNCHANGED outcome
           ELSE IF \E k \in DOMAIN filters : filters[k] \notin ConfiguredFilters
           THEN /\ log' = << Cmd("mechanisms_ok", "") >>
                /\ outcome' = Raised("FailedCondition")
                /\ pc' = "done"
           ELSE /\ log' = << Cmd("mechanisms_ok", ""), Cmd("go_dark", "") >>
                /\ pc' = "cal_setup"
                /\ UNCHANGED outcome
    /\ idx' = 1
    /\ UNCHANGED <<services, kw, now, done, endat, logged>>

\* setup_mask(mask)
take_calibrations_setup_mask ==
    /\ pc = "cal_setup"
    /\ setup_mask_within("cal_execute")

\* execute_mask() followed by a poll of the CSU state
take_calibrations_execute_mask_waits ==
    /\ pc = "cal_execute"
    /\ log' = log \o << SetEvent("mosfire", "CSUGO", PyInt(1)), SleepEvent(3),
                        GetEvent("mosfire", "CSUREADY", "2") >>
    /\ kw' = set("mosfire", "CSUGO", PyInt(1))
    /\ now' = now + 3
    /\ pc' = "cal_filter"
    /\ UNCHANGED <<services, call, done, endat, idx, logged, outcome>>

\* execute_mask(): set('CSUGO', 1), sleep(3)
take_calibrations_execute_mask ==
    /\ pc = "cal_execute"
    /\ log' = log \o << SetEvent("mosfire", "CSUGO", PyInt(1)), SleepEvent(3) >>
    /\ kw' = set("mosfire", "CSUGO", PyInt(1))
    /\ now' = now + 3
    /\ pc' = "cal_filter"
    /\ UNCHANGED <<services, call, done, endat, idx, logged, outcome>>

\* hatch positions the POSNAME keyword of mmdcs can read
RawHatch == { "Closed", "Open", "Unknown" }

\* one pass of `for filt in filters`: the hatch is read, and read again when the
\* first read is not 'Closed'; a section that is not in cfg raises KeyError at the
\* first cfg[...] of the pass
take_calibrations_filter ==
    /\ pc = "cal_filter"
    /\ idx <= Len(call.filters)
    /\ \E first \in RawHatch, second \in RawHatch :
        LET filt == call.filters[idx]
            arcs == IF call.imaging THEN <<>> ELSE take_arcs(filt, call.cfg)
            flats == take_flats(filt, call.cfg, call.imaging, FALSE)
                     \o take_flats(filt, call.cfg, call.imaging, TRUE)
            reads == IF first = "Closed"
                     THEN << GetEvent("mmdcs", "POSNAME", first) >>
                     ELSE << GetEvent("mmdcs", "POSNAME", first),
                             GetEvent("mmdcs", "POSNAME", second) >>
            cmds == reads \o (IF first = "Closed" THEN arcs \o flats
                              ELSE IF second = "Open" THEN flats \o arcs
                              ELSE <<>>)
        IN  /\ first = "Closed" => second = "Closed"
            /\ IF first # "Closed" /\ second # "Open"
               THEN /\ log' = log \o reads
                    /\ outcome' = Raised("FailedCondition")
                    /\ pc' = "done"
                    /\ UNCHANGED idx
               ELSE IF filt \notin ConfiguredFilters
               THEN /\ log' = log \o reads
                    /\ outcome' = Raised("KeyError")
                    /\ pc' = "done"
                    /\ UNCHANGED idx
               ELSE \E fail \in 0 .. Len(cmds) :
                        /\ IssueUpTo(cmds, fail)
                        /\ IF fail = 0
                           THEN idx' = idx + 1 /\ UNCHANGED <<pc, outcome>>
                           ELSE /\ outcome' = Raised("Exception")
                                /\ pc' = "done"
                                /\ UNCHANGED idx
    /\ UNCHANGED <<services, kw, now, call, done, endat, logged>>

\* after the last filter: the post-condition checks are skipped, return None
take_calibrations_return ==
    /\ pc = "cal_filter"
    /\ idx > Len(call.filters)
    /\ outcome' = Returned(PyNone)
    /\ pc' = "done"
    /\ UNCHANGED <<services, kw, now, call, done, endat, idx, log, logged>>

CalNext ==
    \/ take_arcs_call
    \/ take_calibrations_for_a_mask_call
    \/ take_calibrations_setup_mask
    \/ take_calibrations_execute_mask
    \/ take_calibrations_filter
    \/ take_calibrations_return
    \/ Finish

CalSpec == Init /\ [][CalNext]_vars

InCal == call.fn = "take_calibrations_for_a_mask"
IsCmd(ev, name) == ev.e = "call" /\ ev.kw = name
IsArc(ev) ==
    ev.e = "call" /\ (ev.kw \in {"Ne_lamp", "Ar_lamp", "close_hatch"}
                      \/ ev = Cmd("take_exposure", "Ne arc")
                      \/ ev = Cmd("take_exposure", "Ar arc"))
IsFlat(ev, lampsoff) ==
    \/ ev = Cmd("take_exposure", "Dome Flat" \o (IF lampsoff THEN " (lamps off)" ELSE ""))
    \/ ev = Cmd("dome_flat_lamps", IF lampsoff THEN "off" ELSE "flat_power")
\* every event of s that satisfies the first test comes before every one that
\* satisfies the second
Before(s, A(_), B(_)) ==
    \A i \in 1 .. Len(s), j \in 1 .. Len(s) : (A(s[i]) /\ B(s[j])) => i < j
IsAnyFlat(ev) == IsFlat(ev, FALSE) \/ IsFlat(ev, TRUE) \/ IsCmd(ev, "open_hatch")
IsFlatOn(ev) == IsFlat(ev, FALSE)
IsFlatOff(ev) == IsFlat(ev, TRUE)

\* the commands that come before every calibration exposure, and no CSU poll
CalPreamble ==
    InCal =>
        /\ \A k \in 1 .. Len(log) : ~IsRead(log[k], "CSUREADY")
        /\ \A k \in 1 .. Len(log) :
              IsCmd(log[k], "take_exposure") =>
                \E g \in 1 .. k :
                    /\ log[g] = SetEvent("mosfire", "CSUGO", PyInt(1))
                    /\ \A j \in 1 .. g : ~IsCmd(log[j], "take_exposure")
                    /\ \E s \in 1 .. g - 1 :
                          /\ log[s] = SetEvent("mcsus", "SETUPNAME", PyStr(call.mask.name))
                          /\ \E d \in 1 .. s - 1 : log[d] = Cmd("go_dark", "")

\* one pass of the filter loop: what the pass issued, by the hatch reads
CalPass ==
    (InCal /\ pc = "cal_filter" /\ Len(log') > Len(log)) =>
        LET pass == SubSeq(log', Len(log) + 1, Len(log'))
            closed == ReadGave(pass[1], "POSNAME", "Closed")
            open == ~closed /\ ReadGave(pass[2], "POSNAME", "Open")
        IN  /\ IsRead(pass[1], "POSNAME")
            /\ closed => Before(pass, IsArc, IsAnyFlat) /\ outcome'.exc # "FailedCondition"
            /\ open => /\ Before(pass, IsAnyFlat, IsArc)
                       /\ Before(pass, IsFlatOn, IsFlatOff)
                       /\ outcome'.exc # "FailedCondition"
            /\ (~closed /\ ~open) =>
                  /\ outcome' = Raised("FailedCondition")
                  /\ pc' = "done"
                  /\ \A k \in 1 .. Len(pass) : ~IsCmd(pass[k], "take_exposure")

\* C35: take_calibrations_for_a_mask issues go_dark, setup_mask and execute_mask,
\* in this order, before any calibration exposure and never polls the CSU; for
\* each filter the hatch read decides: 'Closed' runs arcs before flats, 'Open'
\* runs flats, lamps on then lamps off, before arcs, and any other position
\* raises FailedCondition with no exposure for that filter or a later one
C35_CalibrationSequence == []CalPreamble /\ [][CalPass]_vars

\* a run over two filters has returned: one pass read 'Closed' and took arcs and
\* flats, the other read 'Unknown' and then 'Open'
C35_Witness ==
    /\ InCal /\ pc = "done" /\ outcome = Returned(PyNone)
    /\ Len(call.filters) = 2 /\ ~call.imaging
    /\ call.cfg.ne_arc_count = 2 /\ call.cfg.flat_count = 1 /\ call.cfg.flatoff_count = 1
    /\ \E i, j \in 1 .. Len(log) :
          /\ i < j
          /\ ReadGave(log[i], "POSNAME", "Closed")
          /\ ReadGave(log[j], "POSNAME", "Open")
    /\ \E k \in 1 .. Len(log) : ReadGave(log[k], "POSNAME", "Unknown")

InArcs == call.fn = "take_arcs" /\ pc = "done"
\* the lamp ("Ne" or "Ar") is on after the k-th command
LampOn(lamp, k) ==
    \E i \in 1 .. k :
        /\ log[i] = Cmd(lamp \o "_lamp", "on")
        /\ \A j \in i + 1 .. k : log[j] # Cmd(lamp \o "_lamp", "off")
ArcExposure(lamp, k) == log[k] = Cmd("take_exposure", lamp \o " arc")

\* C36: when take_arcs returns, no arc lamp is on, every arc exposure was taken
\* with its lamp on and after close_hatch, the two lamps were never on together
\* and the last command is go_dark; when an exposure raises, that exposure is the
\* last command and its lamp is left on
C36_ArcLampsBracketExposures ==
    InArcs =>
        /\ \A k \in 1 .. Len(log), lamp \in {"Ne", "Ar"} :
              ArcExposure(lamp, k) =>
                  /\ LampOn(lamp, k)
                  /\ \E c \in 1 .. k : log[c] = Cmd("close_hatch", "")
        /\ \A k \in 1 .. Len(log) : ~(LampOn("Ne", k) /\ LampOn("Ar", k))
        /\ outcome.kind = "return" =>
              /\ ~LampOn("Ne", Len(log)) /\ ~LampOn("Ar", Len(log))
              /\ log[Len(log)] = Cmd("go_dark", "")
        /\ outcome.kind = "raise" =>
              \E lamp \in {"Ne", "Ar"} :
                  ArcExposure(lamp, Len(log)) /\ LampOn(lamp, Len(log))

\* take_arcs has returned after two Ne arcs and an Ar arc
C36_Witness ==
    /\ InArcs /\ outcome = Returned(PyNone)
    /\ call.cfg.ne_arc_count = 2 /\ call.cfg.ar_arc_count = 1
    /\ Len(log) = 14
----------------------------------------------------------------------------
(* HIRES covers and grating angles (src/instruments/hires/mechs.py) *)

\* a command of the HIRES keyword functions get('hires', keyword),
\* set('hires', keyword, value, wait=wait) and sleep, as recorded in log
HiresEvent(e, keyword, value, wait) ==
    [e |-> e, service |-> "hires", kw |-> keyword, val |-> value, wait |-> wait]

\* raw strings the COLLRED and COLLBLUE keywords can read
RawCollimator == {"red", "not red", "blue", "not blue", "unknown"}

\* collimator() on the raw COLLRED and COLLBLUE strings
collimator(collred, collblue) ==
    IF collred = "red" /\ collblue = "not blue" THEN PyStr("red")
    ELSE IF collred = "not red" /\ collblue = "blue" THEN PyStr("blue")
    ELSE PyNone

\* set_covers with nothing written when the collimator is unknown
set_covers_unknownWritesNothing(dest, wait, whichcollimator) ==
    LET pass(w) ==
            IF whichcollimator = PyNone THEN <<>>
            ELSE << HiresEvent("set", IF whichcollimator = PyStr("red")
                                       THEN "rcocover" ELSE "bcocover", PyStr(dest), w),
                    HiresEvent("set", "echcover", PyStr(dest), w),
                    HiresEvent("set", "co1cover", PyStr(dest), w),
                    HiresEvent("set", "xdcover", PyStr(dest), w),
                    HiresEvent("set", "co2cover", PyStr(dest), w),
                    HiresEvent("set", "camcover", PyStr(dest), w),
                    HiresEvent("set", "darkslid", PyStr(dest), w) >>
    IN  pass(FALSE) \o (IF wait = TRUE THEN pass(TRUE) ELSE <<>>)

\* the writes of set_covers(dest, wait) once collimator() has answered: one pass
\* with wait=False and, if wait is True, the same pass again with wait=True
set_covers(dest, wait, whichcollimator) ==
    LET pass(w) ==
            (IF whichcollimator = PyStr("red")
             THEN << HiresEvent("set", "rcocover", PyStr(dest), w) >>
             ELSE IF whichcollimator = PyStr("blue")
             THEN << HiresEvent("set", "bcocover", PyStr(dest), w) >>
             ELSE <<>>)
            \o << HiresEvent("set", "echcover", PyStr(dest), w),
                  HiresEvent("set", "co1cover", PyStr(dest), w),
                  HiresEvent("set", "xdcover", PyStr(dest), w),
                  HiresEvent("set", "co2cover", PyStr(dest), w),
                  HiresEvent("set", "camcover", PyStr(dest), w),
                  HiresEvent("set", "darkslid", PyStr(dest), w) >>
    IN  pass(FALSE) \o (IF wait = TRUE THEN pass(TRUE) ELSE <<>>)

\* the caller invokes set_covers(dest, wait): the assert on dest, collimator()
\* and the writes; log.error once per pass when the collimator is unknown
set_covers_call ==
    /\ pc = "idle"
    /\ now = 0
    /\ \E dest \in {"open", "closed", "ajar"}, wait \in BOOLEAN,
          collred \in RawCollimator, collblue \in RawCollimator :
        LET whichcollimator == collimator(collred, collblue)
            unknown == [level |-> "error", msg |-> "Collimator is unknown. Cover not opened."]
        IN  /\ call' = [fn |-> "set_covers", dest |-> dest, wait |-> wait,
                        whichcollimator |-> whichcollimator]
            /\ IF dest \notin {"open", "closed"}
               THEN /\ log' = <<>>
                    /\ logged' = <<>>
                    /\ outcome' = Raised("AssertionError")
               ELSE /\ log' = << HiresEvent("get", "COLLRED", PyStr(collred), FALSE),
                                 HiresEvent("get", "COLLBLUE", PyStr(collblue), FALSE) >>
                             \o set_covers(dest, wait, whichcollimator)
                    /\ logged' = IF whichcollimator # PyNone THEN <<>>
                                 ELSE IF wait THEN << unknown, unknown >>
                                 ELSE << unknown >>
                    /\ outcome' = Returned(PyNone)
    /\ pc' = "done"
    /\ UNCHANGED <<services, kw, now, done, endat, idx>>

\* np.sign(delta)
Sign(delta) == IF delta > 0 THEN 1 ELSE IF delta < 0 THEN -1 ELSE 0

\* the number of intermediate moves, rounded up instead of down
nsteps_roundsUp(delta, step) == (Abs(delta) + step - 1) \div step

\* int(np.floor(abs(delta) / step)), for step > 0
nsteps(delta, step) == Abs(delta) \div step

\* the device after set('hires', keyword, value, wait=True): at the commanded
\* position when it reaches it, where it was when it is stalled
Moved(keyword, value) ==
    IF call.reaches THEN [kw EXCEPT ![<<"hires", keyword>>] = PyInt(value)] ELSE kw

\* the caller invokes set_xdraw(dest, simple, threshold, step), or set_echraw,
\* which is the same function on ECHRAW, with the mechanism at `start`; ts is
\* (threshold, step): the defaults, a threshold below the step, one above it;
\* not simple: delta = dest - xdraw() and the number of steps
set_xdraw_call ==
    /\ pc = "idle"
    /\ now = 0
    /\ \E keyword \in {"XDRAW", "ECHRAW"}, simple \in BOOLEAN, reaches \in BOOLEAN,
          dest \in {-3000, 0, 1, 1999, 4000, 6001},
          start \in {-3000, 0, 1, 1999, 4000, 6001},
          ts \in { <<2000, 2000>>, <<500, 2000>>, <<3000, 1000>> } :
        LET delta == dest - start
            n == IF ~simple /\ Abs(delta) > ts[1] THEN nsteps(delta, ts[2]) ELSE 0
        IN  /\ call' = [fn |-> "set_xdraw", keyword |-> keyword, dest |-> dest,
                        simple |-> simple, threshold |-> ts[1], step |-> ts[2],
                        start |-> start, reaches |-> reaches, delta |-> delta,
                        nsteps |-> n]
            /\ kw' = [kw EXCEPT ![<<"hires", keyword>>] = PyInt(start)]
            /\ log' = IF simple THEN <<>>
                      ELSE << HiresEvent("get", keyword, PyInt(start), FALSE) >>
            /\ pc' = IF n > 0 THEN "set_xdraw_step" ELSE "set_xdraw_final"
    /\ idx' = 0
    /\ logged' = <<>>
    /\ outcome' = Running
    /\ UNCHANGED <<services, now, done, endat>>

\* one pass of `for i in range(nsteps)`: movedest = xdraw() + np.sign(delta)*step,
\* the write with wait=True, sleep(1)
set_xdraw_step ==
    /\ pc = "set_xdraw_step"
    /\ LET cur == kw[<<"hires", call.keyword>>]
           movedest == cur.i + Sign(call.delta) * call.step
       IN  /\ log' = log \o << HiresEvent("get", call.keyword, cur, FALSE),
                               HiresEvent("set", call.keyword, PyInt(movedest), TRUE),
                               HiresEvent("sleep", "", PyInt(1), FALSE) >>
           /\ kw' = Moved(call.keyword, movedest)
    /\ now' = now + 1
    /\ idx' = idx + 1
    /\ pc' = IF idx + 1 < call.nsteps THEN "set_xdraw_step" ELSE "set_xdraw_final"
    /\ UNCHANGED <<services, call, done, endat, logged, outcome>>

\* the final (or the simple) move to dest, then xdraw() for the log line and
\* xdraw() for the return value
set_xdraw_final ==
    /\ pc = "set_xdraw_final"
    /\ kw' = Moved(call.keyword, call.dest)
    /\ log' = log \o << HiresEvent("set", call.keyword, PyInt(call.dest), TRUE),
                        HiresEvent("get", call.keyword, kw'[<<"hires", call.keyword>>], FALSE),
                        HiresEvent("get", call.keyword, kw'[<<"hires", call.keyword>>], FALSE) >>
    /\ outcome' = Returned(kw'[<<"hires", call.keyword>>])
    /\ pc' = "done"
    /\ UNCHANGED <<services, now, call, done, endat, idx, logged>>

HiresNext ==
    \/ set_covers_call
    \/ set_xdraw_call
    \/ set_xdraw_step
    \/ set_xdraw_final
    \/ Finish

HiresSpec == Init /\ [][HiresNext]_vars

----------------------------------------------------------------------------
\* the writes among the commands of the running call, in order
WritesOf(s) == SelectSeq(s, LAMBDA ev : ev.e = "set")
RemainingCovers == << "echcover", "co1cover", "xdcover", "co2cover", "camcover", "darkslid" >>

\* C37: set_covers with a collimator that collimator() cannot determine writes
\* neither rcocover nor bcocover, writes the six remaining covers to dest in the
\* order echcover, co1cover, xdcover, co2cover, camcover, darkslid with
\* wait=False, with wait=True repeats the same six writes with wait=True, and
\* returns without raising
C37_UnknownCollimatorStillMovesCovers ==
    (/\ call.fn = "set_covers" /\ pc = "done"
     /\ call.whichcollimator = PyNone /\ call.dest \in {"open", "closed"})
    => LET writes == WritesOf(log)
       IN  /\ outcome = Returned(PyNone)
           /\ \A i \in 1 .. Len(writes) : writes[i].kw \notin {"rcocover", "bcocover"}
           /\ Len(writes) = IF call.wait THEN 12 ELSE 6
           /\ \A i \in 1 .. Len(writes) :
                 /\ writes[i].kw = RemainingCovers[((i - 1) % 6) + 1]
                 /\ writes[i].val = PyStr(call.dest)
                 /\ writes[i].wait = (i > 6)

\* set_covers('closed', wait=True) has returned with COLLRED and COLLBLUE
\* reading a pair that names no collimator
C37_Witness ==
    /\ call.fn = "set_covers" /\ pc = "done"
    /\ call.whichcollimator = PyNone /\ call.dest = "closed" /\ call.wait
    /\ Len(log) = 14
    /\ outcome = Returned(PyNone)

----------------------------------------------------------------------------
\* a non-simple set_xdraw / set_echraw against a device that reaches each
\* commanded position
SteppedMove == call.fn = "set_xdraw" /\ ~call.simple /\ call.reaches
\* position of the last write in log (0 when nothing has been written)
LastWrite == CHOOSE i \in 0 .. Len(log) :
                /\ i > 0 => log[i].e = "set"
                /\ \A j \in i + 1 .. Len(log) : log[j].e # "set"

\* C38: in a non-simple set_xdraw or set_echraw against a device that reaches
\* each commanded position, every write but the last follows a reading and is
\* that reading plus one step toward dest, no write lies beyond dest; once the
\* call has returned there were floor(|dest - start| / step) such intermediate
\* writes if |dest - start| > threshold and none otherwise, the last write is
\* dest, the mechanism is at dest and dest is returned
C38_SteppedMoveEndsAtDest ==
    SteppedMove =>
        /\ \A i \in 1 .. Len(log) :
              log[i].e = "set" =>
                  /\ Sign(call.delta) * (call.dest - log[i].val.i) >= 0
                  /\ (i # LastWrite \/ pc # "done") =>
                        /\ i > 1 /\ log[i - 1].e = "get"
                        /\ log[i].val.i = log[i - 1].val.i + Sign(call.delta) * call.step
        /\ pc = "done" =>
              /\ Len(WritesOf(log)) =
                    1 + (IF Abs(call.dest - call.start) > call.threshold
                         THEN Abs(call.dest - call.start) \div call.step ELSE 0)
              /\ log[LastWrite].val = PyInt(call.dest)
              /\ kw[<<"hires", call.keyword>>] = PyInt(call.dest)
              /\ outcome = Returned(PyInt(call.dest))

\* set_echraw(6001) from 1 with the default threshold and step has returned
\* after three intermediate moves and the final move
C38_Witness ==
    /\ SteppedMove /\ pc = "done"
    /\ call.keyword = "ECHRAW" /\ call.start = 1 /\ call.dest = 6001
    /\ call.step = 2000 /\ call.threshold = 2000
    /\ Len(WritesOf(log)) = 4
    /\ kw[<<"hires", "ECHRAW">>] = PyInt(6001)

----------------------------------------------------------------------------
(* quick_dark(filter) *)

filters == {"Y", "J", "H", "K", "J2", "J3", "NB"}

\* quick_dark keeping a filter that is not in the allowed list
quick_dark_filter_keepsUnlisted(filter) == filter

\* `if filter not in filters: filter = None`
quick_dark_filter(filter) ==
    IF filter.t = "str" /\ filter.s \in filters THEN filter ELSE PyNone

\* filter_combo.get(filter): the (wheel 1, wheel 2) pair, None for a key that
\* is not in the dict
filter_combo(filter) ==
    IF filter = PyNone THEN << "NB1061", "Ks" >>
    ELSE IF filter.s = "Y" THEN << "H2", "Y" >>
    ELSE IF filter.s \in {"J", "H", "Ks", "K"} THEN << "NB1061", filter.s >>
    ELSE IF filter.s \in {"J2", "J3", "H1", "H2"} THEN << filter.s, "K" >>
    ELSE <<>>

\* the caller invokes quick_dark(filter) with the wheels reading pos1 and pos2:
\* unpacking None raises TypeError; otherwise each wheel is read and is written
\* if what filter1() / filter2() returned differs from its destination
quick_dark_call ==
    /\ pc = "idle"
    /\ now = 0
    /\ \E filter \in { PyNone } \cup { PyStr(f) : f \in {"Y", "J", "K", "J2", "NB", "Ks", "H1", "R"} },
          pos1 \in Reads({"NB1061", "H2", "J2", "H1", "Unknown"}),
          pos2 \in Reads({"Ks", "Y", "J", "K", "Unknown"}) :
        LET dest == filter_combo(quick_dark_filter(filter))
            move(service, pos, fdest) ==
                << GetEvent(service, "posname", pos) >>
                \o (IF get(pos, "str") # PyStr(fdest)
                    THEN << SetEvent(service, "targname", PyStr(fdest)) >> ELSE <<>>)
        IN  /\ call' = [fn |-> "quick_dark", filter |-> filter]
            /\ logged' = IF quick_dark_filter(filter) # filter
                         THEN << [level |-> "error", msg |-> "Filter not in allowed filter list"] >>
                         ELSE <<>>
            /\ IF dest = <<>>
               THEN /\ log' = <<>>
                    /\ kw' = kw
                    /\ outcome' = Raised("TypeError")
               ELSE /\ log' = move("mmf1s", pos1, dest[1]) \o move("mmf2s", pos2, dest[2])
                    /\ kw' = IF services = {} THEN kw
                             ELSE [k \in Keywords |->
                                     IF k = <<"mmf1s", "targname">> /\ PyStr(pos1) # PyStr(dest[1])
                                     THEN PyStr(dest[1])
                                     ELSE IF k = <<"mmf2s", "targname">> /\ PyStr(pos2) # PyStr(dest[2])
                                     THEN PyStr(dest[2])
                                     ELSE kw[k]]
                    /\ outcome' = Returned(PyNone)
    /\ pc' = "done"
    /\ UNCHANGED <<services, now, done, endat, idx>>

DarkNext ==
    \/ quick_dark_call
    \/ Finish

DarkSpec == Init /\ [][DarkNext]_vars

\* what filter1() (service mmf1s) or filter2() (mmf2s) returned in the running call
WheelRead(service) ==
    LET reads == SelectSeq(log, LAMBDA ev : ev.e = "get" /\ ev.service = service)
    IN  reads[1].val
\* the values quick_dark wrote to the wheel's targname, in order
WheelWrites(service) ==
    LET sets == SelectSeq(log, LAMBDA ev : ev.e = "set" /\ ev.service = service)
    IN  [i \in 1 .. Len(sets) |-> sets[i].val]
\* destinations of the filters that are in the allowed list and in filter_combo
ListedPair ==
    [f \in {"Y", "J", "H", "K", "J2", "J3"} |->
        IF f = "Y" THEN << "H2", "Y" >>
        ELSE IF f \in {"J", "H", "K"} THEN << "NB1061", f >>
        ELSE << f, "K" >>]

\* C39: a quick_dark that returns reads each wheel once and writes a wheel's
\* targname, once and with its destination, exactly if the position name read
\* from that wheel differs from the destination, so that nothing is written
\* when both wheels read the destination pair; the destination pair is
\* ('NB1061', 'Ks') for a filter that is None or not in the allowed list
C39_WritesOnlyWheelsThatDiffer ==
    (call.fn = "quick_dark" /\ pc = "done" /\ outcome.kind = "return") =>
        LET pair == IF call.filter.t = "str" /\ call.filter.s \in DOMAIN ListedPair
                    THEN ListedPair[call.filter.s] ELSE << "NB1061", "Ks" >>
            only(service, fdest) ==
                WheelWrites(service) = IF WheelRead(service) = PyStr(fdest)
                                       THEN <<>> ELSE << PyStr(fdest) >>
        IN  /\ only("mmf1s", pair[1])
            /\ only("mmf2s", pair[2])
            /\ (WheelRead("mmf1s") = PyStr(pair[1]) /\ WheelRead("mmf2s") = PyStr(pair[2]))
                  => WritesOf(log) = <<>>

\* quick_dark('H1'), a filter that is not in the allowed list, has returned
\* with wheel 1 already at NB1061 and wheel 2 at K: only wheel 2 was written
C39_Witness ==
    /\ call.fn = "quick_dark" /\ pc = "done" /\ outcome = Returned(PyNone)
    /\ call.filter = PyStr("H1")
    /\ WheelRead("mmf1s") = PyStr("NB1061")
    /\ WheelWrites("mmf1s") = <<>>
    /\ WheelWrites("mmf2s") = << PyStr("Ks") >>

====
